---- MODULE Spec2Model ----
(***************************************************************************)
(* Provider wrappers of hardhat-core (core/providers/accounts.ts):         *)
(* LocalAccountsProvider, AutomaticSenderProvider and FixedSenderProvider  *)
(* in front of an inner EIP-1193 provider.                                 *)
(*                                                                         *)
(* A request is a stack of frames: the wrapper's own activation at the     *)
(* bottom, the request it has outstanding at its inner provider on top.    *)
(* One action is the code of a handler between two awaits of the inner     *)
(* provider.  sent[c] records every request a wrapper of call c issued to  *)
(* its inner provider, with a copy of what the inner provider saw.         *)
(*                                                                         *)
(* Optional values are sequences of length at most one: <<>> is            *)
(* JavaScript's undefined, <<v>> is the value v.                           *)
(***************************************************************************)
EXTENDS Integers, Sequences, FiniteSets, TLC

VARIABLES
  chain,                \* the wrappers, outermost first; the transport follows
  constructorKeys,      \* LocalAccountsProvider: localAccountsHexPrivateKeys
  _addressToPrivateKey, \* LocalAccountsProvider: insertion-ordered Map
  _chainId,             \* ProviderWrapperWithChainId: cached chain id
  _firstAccount,        \* AutomaticSenderProvider: cached first account
  _sender,              \* FixedSenderProvider: configured sender
  heap,                 \* heap[c]: the caller's transaction object params[0]
  args0,                \* args0[c]: the caller's request as it was at the call
  stack,                \* stack[c]: frames of call c, innermost last
  sent,                 \* sent[c]: requests issued to inner providers by call c
  accountsLog,          \* outcomes of the eth_accounts lookups of _getSender
  ncalls,               \* number of requests made so far
  fakeSenderTx,         \* hardhat-network: the FakeSenderTransaction built
  called,               \* hardhat-network: the operation called, with its
                        \* arguments
  returned              \* hardhat-network: what that operation returned or threw

vars == <<chain, constructorKeys, _addressToPrivateKey, _chainId,
          _firstAccount, _sender, heap, args0, stack, sent, accountsLog,
          ncalls, fakeSenderTx, called, returned>>

providerVars == <<chain, constructorKeys, _addressToPrivateKey, _chainId,
                  _firstAccount, _sender, heap, args0, stack, sent,
                  accountsLog, ncalls>>

nodeVars == <<fakeSenderTx, called, returned>>

wrapperState == <<chain, constructorKeys, _addressToPrivateKey,
                  _chainId, _firstAccount, _sender>>

(***************************************************************************)
(* Bounds                                                                  *)
(***************************************************************************)
MaxCalls == 3

\* the requests that can be in flight: the slots the state was built with
Calls == DOMAIN stack

(***************************************************************************)
(* Values                                                                  *)
(***************************************************************************)
Undefined == <<>>

Some(v) == <<v>>

IsDefined(o) == o # Undefined

Val(o) == o[1]

TxRef == "<params[0]: transaction object>"

RawRef == "<bufferToHex(rawTransaction)>"

\* ethereumjs-util toBuffer / io-ts rpcAddress, rpcData: hex string -> bytes
toBuffer(h) ==
  CASE h \in {"0xaa", "0xAA"} -> <<170>>
    [] h \in {"0xbb", "0xBB"} -> <<187>>
    [] h = "0xcc" -> <<204>>
    [] h = "0x01" -> <<1>>
    [] h = "0x02" -> <<2>>
    [] h = "0xdead" -> <<222, 173>>
    [] OTHER -> <<>>

IsHexData(h) == h \in {"0xaa", "0xAA", "0xbb", "0xBB", "0xcc", "0x01", "0x02", "0xdead"}

\* ethereumjs-util bufferToHex: bytes -> lower-case hex string
bufferToHex(b) ==
  CASE b = <<170>> -> "0xaa"
    [] b = <<187>> -> "0xbb"
    [] b = <<204>> -> "0xcc"
    [] b = <<1>> -> "0x01"
    [] b = <<2>> -> "0x02"
    [] b = <<222, 173>> -> "0xdead"
    [] OTHER -> "0x"

\* ethereumjs-util privateToAddress: the address a private key derives
privateToAddress(pk) ==
  CASE pk = <<1>> -> <<170>>
    [] pk = <<2>> -> <<187>>
    [] OTHER -> <<204>>

IsQuantity(q) == q \in {"0x0", "0x1", "0x2", "0x5208", "0x7a69"}

\* base-types rpcQuantityToBN: QUANTITY string -> number
rpcQuantityToBN(q) ==
  CASE q = "0x0" -> 0
    [] q = "0x1" -> 1
    [] q = "0x2" -> 2
    [] q = "0x5208" -> 21000
    [] q = "0x7a69" -> 31337
    [] OTHER -> 0

\* rpcAddress accepts the DATA strings of address length
IsAddress(h) == h \in {"0xaa", "0xAA", "0xbb", "0xBB", "0xcc"}

(***************************************************************************)
(* Outcomes of a request: a promise is pending, fulfilled or rejected      *)
(***************************************************************************)
Pending == [kind |-> "pending", val |-> <<>>]

Result(v) == [kind |-> "result", val |-> v]

Error(v) == [kind |-> "error", val |-> v]

ETHSIGN_MISSING_DATA_PARAM == Error(<<"ETHSIGN_MISSING_DATA_PARAM">>)

NOT_LOCAL_ACCOUNT(account) == Error(<<"NOT_LOCAL_ACCOUNT", account>>)

MISSING_TX_PARAM_TO_SIGN_LOCALLY(param) ==
  Error(<<"MISSING_TX_PARAM_TO_SIGN_LOCALLY", param>>)

NO_REMOTE_ACCOUNT_AVAILABLE == Error(<<"NO_REMOTE_ACCOUNT_AVAILABLE">>)

InvalidArgumentsError == Error(<<"INVALID_ARGUMENTS">>)

TransportError == Error(<<"TRANSPORT_ERROR">>)

(***************************************************************************)
(* Requests (RequestArguments) and frames                                  *)
(***************************************************************************)
\* args: method, params (hasParams = FALSE: args.params is undefined), the
\* content of the transaction object params[0] refers to, the signed
\* transaction the hex string of an eth_sendRawTransaction stands for
Request(method, hasParams, params, tx, raw) ==
  [method |-> method, hasParams |-> hasParams, params |-> params,
   tx |-> tx, raw |-> raw]

NoRequest == Request("", FALSE, <<>>, Undefined, Undefined)

NewFrame(kind, req, logIx) ==
  [kind |-> kind, pc |-> IF kind = "transport" THEN "pending" ELSE "start",
   method |-> req.method, hasParams |-> req.hasParams, params |-> req.params,
   raw |-> req.raw, logIx |-> logIx, outcome |-> Pending,
   txRequest |-> Undefined, privateKey |-> Undefined]

\* Args with the params dropped
Args_NoParams(f, tx) == Request(f.method, FALSE, <<>>, tx, f.raw)

\* the args object a frame was called with
Args(f, tx) == Request(f.method, f.hasParams, f.params, tx, f.raw)

\* ProviderWrapper._getParams: args.params, or [] when it is undefined
_getParams(f) == IF f.hasParams THEN f.params ELSE <<>>

KindAt(d) == IF d <= Len(chain) THEN chain[d] ELSE "transport"

Top(st) == st[Len(st)]

Pop(st) == SubSeq(st, 1, Len(st) - 1)

SetTop(st, f) == [st EXCEPT ![Len(st)] = f]

\* what a step of a handler ends with: a request to the inner provider, after
\* which the handler is suspended in frame f, or the handler's completion
Issue(f, req) == [op |-> "issue", frame |-> f, req |-> req]

Finish(f, outcome) == [op |-> "finish", frame |-> f, outcome |-> outcome]

\* the step r of the handler on top of base, the caller's transaction object
\* being tx afterwards
Apply(c, base, r, tx) ==
  /\ heap' = [heap EXCEPT ![c] = tx]
  /\ IF r.op = "issue"
     THEN /\ stack' = [stack EXCEPT ![c] =
                 Append(SetTop(base, r.frame),
                        NewFrame(KindAt(Len(base) + 1), r.req, Len(sent[c]) + 1))]
          /\ sent' = [sent EXCEPT ![c] =
                 Append(@, [depth |-> Len(base), method |-> r.req.method,
                            hasParams |-> r.req.hasParams,
                            params |-> r.req.params, tx |-> r.req.tx,
                            raw |-> r.req.raw, outcome |-> Pending])]
     ELSE /\ stack' = [stack EXCEPT ![c] =
                 SetTop(base, [r.frame EXCEPT !.pc = "done",
                                              !.outcome = r.outcome])]
          /\ sent' = IF r.frame.logIx > 0
                     THEN [sent EXCEPT ![c][r.frame.logIx].outcome = r.outcome]
                     ELSE sent

(***************************************************************************)
(* The private-key registry: a Map, kept as the sequence of its entries in *)
(* insertion order                                                         *)
(***************************************************************************)
MapHas(m, k) == \E i \in 1..Len(m) : m[i].address = k

MapSet(m, k, v) ==
  IF MapHas(m, k)
  THEN [i \in 1..Len(m) |-> IF m[i].address = k THEN [address |-> k, pk |-> v]
                                               ELSE m[i]]
  ELSE Append(m, [address |-> k, pk |-> v])

MapGet(m, k) ==
  IF MapHas(m, k)
  THEN Some((CHOOSE e \in {m[i] : i \in 1..Len(m)} : e.address = k).pk)
  ELSE Undefined

\* MapKeys that lists no address
MapKeys_Empty(m) == <<>>

MapKeys(m) == [i \in 1..Len(m) |-> m[i].address]

\* String.prototype.toLowerCase on the hex strings of this model
toLowerCase(h) ==
  CASE h = "0xAA" -> "0xaa"
    [] h = "0xBB" -> "0xbb"
    [] OTHER -> h

RECURSIVE InitializeFrom(_, _)
InitializeFrom(m, privateKeys) ==
  IF privateKeys = <<>>
  THEN m
  ELSE LET pk == Head(privateKeys)
           address == toLowerCase(bufferToHex(privateToAddress(pk)))
       IN InitializeFrom(MapSet(m, address, pk), Tail(privateKeys))

\* _initializePrivateKeys without the last key
_initializePrivateKeys_SkipsLast(localAccountsHexPrivateKeys) ==
  InitializeFrom(<<>>, [i \in 1..(Len(localAccountsHexPrivateKeys) - 1) |->
                           toBuffer(localAccountsHexPrivateKeys[i])])

_initializePrivateKeys(localAccountsHexPrivateKeys) ==
  InitializeFrom(<<>>, [i \in 1..Len(localAccountsHexPrivateKeys) |->
                           toBuffer(localAccountsHexPrivateKeys[i])])

\* _getPrivateKeyForAddress that falls back on the first key of the registry
_getPrivateKeyForAddress_AnyKey(address) ==
  IF MapHas(_addressToPrivateKey, bufferToHex(address)) \/ _addressToPrivateKey = <<>>
  THEN MapGet(_addressToPrivateKey, bufferToHex(address))
  ELSE Some(_addressToPrivateKey[1].pk)

_getPrivateKeyForAddress(address) ==
  MapGet(_addressToPrivateKey, bufferToHex(address))

(***************************************************************************)
(* validateParams and the io-ts types it decodes with                      *)
(***************************************************************************)
Param(params, i) == IF i <= Len(params) THEN Some(params[i]) ELSE Undefined

\* rpcAddress, rpcData: an absent parameter decodes to undefined
DecodesAddress(p) == ~IsDefined(p) \/ IsAddress(Val(p))

DecodesData(p) == ~IsDefined(p) \/ IsHexData(Val(p))

DecodesQuantity(p) == ~IsDefined(p) \/ IsQuantity(Val(p))

DecodeData(p) == IF IsDefined(p) THEN Some(toBuffer(Val(p))) ELSE Undefined

DecodeQuantity(p) == IF IsDefined(p) THEN Some(rpcQuantityToBN(Val(p))) ELSE Undefined

\* rpcTransactionRequest: the decoded transaction is a new object
DecodesTransactionRequest(tx) ==
  /\ IsDefined(tx)
  /\ DecodesAddress(Val(tx).from) /\ DecodesAddress(Val(tx).to)
  /\ DecodesQuantity(Val(tx).gas) /\ DecodesQuantity(Val(tx).gasPrice)
  /\ DecodesQuantity(Val(tx).value) /\ DecodesData(Val(tx).data)
  /\ DecodesQuantity(Val(tx).nonce)

DecodeTransactionRequest(tx) ==
  [from |-> DecodeData(Val(tx).from), to |-> DecodeData(Val(tx).to),
   gas |-> DecodeQuantity(Val(tx).gas),
   gasPrice |-> DecodeQuantity(Val(tx).gasPrice),
   value |-> DecodeQuantity(Val(tx).value), data |-> DecodeData(Val(tx).data),
   nonce |-> DecodeQuantity(Val(tx).nonce)]

\* the transaction object params[0] refers to, if it is one
TxOf(params, tx) ==
  IF Len(params) > 0 /\ params[1] = TxRef THEN tx ELSE Undefined

(***************************************************************************)
(* The external signing collaborators, kept symbolic                       *)
(***************************************************************************)
\* toRpcSig(ecsign(hashPersonalMessage(toBuffer(data)), privateKey))
PersonalSign(data, privateKey) ==
  <<"personal_sign", bufferToHex(data), bufferToHex(privateKey)>>

\* ethSigUtil.signTypedData_v4(privateKey, {data})
signTypedData_v4(privateKey, data) ==
  <<"signTypedData_v4", data, bufferToHex(privateKey)>>

\* chains.chains.names: the chain ids @ethereumjs/common knows by name
KnownChains == {1, 3, 4, 5, 42}

\* LocalAccountsProvider._getSignedTransaction
_getSignedTransaction(transactionRequest, chainId, privateKey) ==
  LET txData == [nonce |-> transactionRequest.nonce,
                 gasPrice |-> transactionRequest.gasPrice,
                 gasLimit |-> transactionRequest.gas,
                 to |-> transactionRequest.to,
                 value |-> transactionRequest.value,
                 data |-> transactionRequest.data]
      common == IF chainId \in KnownChains
                THEN [chainId |-> chainId, custom |-> FALSE]
                ELSE [chainId |-> chainId, custom |-> TRUE]
  IN [txData |-> txData, common |-> common, signedWith |-> privateKey]

(***************************************************************************)
(* LocalAccountsProvider.request                                           *)
(***************************************************************************)
\* LocalSend without the rewrite of the method
LocalSend_KeepsMethod(f, chainId) ==
  Issue([f EXCEPT !.pc = "forward"],
        Request(f.method, TRUE, <<RawRef>>, Undefined,
                Some(_getSignedTransaction(Val(f.txRequest), chainId,
                                           Val(f.privateKey)))))

\* lines 131-140: sign, serialize and forward as eth_sendRawTransaction
LocalSend(f, chainId) ==
  Issue([f EXCEPT !.pc = "forward"],
        Request("eth_sendRawTransaction", TRUE, <<RawRef>>, Undefined,
                Some(_getSignedTransaction(Val(f.txRequest), chainId,
                                           Val(f.privateKey)))))

\* ProviderWrapperWithChainId._getChainId: the round trip that resolves the
\* chain id when it is not cached
_getChainIdRequest == Request("eth_chainId", FALSE, <<>>, Undefined, Undefined)

\* LocalSign that resolves the chain id at every signing
LocalSign_NoCache(f) ==
  LET from == Val(Val(f.txRequest).from)
      privateKey == _getPrivateKeyForAddress(from)
      g == [f EXCEPT !.privateKey = privateKey]
  IN IF ~IsDefined(privateKey)
     THEN Finish(f, NOT_LOCAL_ACCOUNT(bufferToHex(from)))
     ELSE Issue([g EXCEPT !.pc = "getChainId"], _getChainIdRequest)

\* lines 127-129: the private key of from, then ProviderWrapperWithChainId's
\* _getChainId, which asks the inner provider unless the chain id is cached
LocalSign(f) ==
  LET from == Val(Val(f.txRequest).from)
      privateKey == _getPrivateKeyForAddress(from)
      g == [f EXCEPT !.privateKey = privateKey]
  IN IF ~IsDefined(privateKey)
     THEN Finish(f, NOT_LOCAL_ACCOUNT(bufferToHex(from)))
     ELSE IF ~IsDefined(_chainId)
          THEN Issue([g EXCEPT !.pc = "getChainId"], _getChainIdRequest)
          ELSE LocalSend(g, Val(_chainId))

\* LocalSendTransaction with from checked before gas
LocalSendTransaction_FromFirst(f, tx) ==
  IF ~(Len(_getParams(f)) <= 1 /\ DecodesTransactionRequest(TxOf(_getParams(f), tx)))
  THEN Finish(f, InvalidArgumentsError)
  ELSE LET txRequest == DecodeTransactionRequest(tx)
           g == [f EXCEPT !.txRequest = Some(txRequest)]
       IN IF ~IsDefined(txRequest.from)
          THEN Finish(f, MISSING_TX_PARAM_TO_SIGN_LOCALLY("from"))
          ELSE IF ~IsDefined(txRequest.gas)
          THEN Finish(f, MISSING_TX_PARAM_TO_SIGN_LOCALLY("gas"))
          ELSE IF ~IsDefined(txRequest.gasPrice)
          THEN Finish(f, MISSING_TX_PARAM_TO_SIGN_LOCALLY("gasPrice"))
          ELSE IF ~IsDefined(txRequest.nonce)
          THEN Issue([g EXCEPT !.pc = "getNonce"],
                     Request("eth_getTransactionCount", TRUE,
                             <<bufferToHex(Val(txRequest.from)), "pending">>,
                             Undefined, Undefined))
          ELSE LocalSign(g)

\* LocalSendTransaction asking for the nonce whether or not one is supplied
LocalSendTransaction_AlwaysAsks(f, tx) ==
  IF ~(Len(_getParams(f)) <= 1 /\ DecodesTransactionRequest(TxOf(_getParams(f), tx)))
  THEN Finish(f, InvalidArgumentsError)
  ELSE LET txRequest == DecodeTransactionRequest(tx)
           g == [f EXCEPT !.txRequest = Some(txRequest)]
       IN IF ~IsDefined(txRequest.gas)
          THEN Finish(f, MISSING_TX_PARAM_TO_SIGN_LOCALLY("gas"))
          ELSE IF ~IsDefined(txRequest.from)
          THEN Finish(f, MISSING_TX_PARAM_TO_SIGN_LOCALLY("from"))
          ELSE IF ~IsDefined(txRequest.gasPrice)
          THEN Finish(f, MISSING_TX_PARAM_TO_SIGN_LOCALLY("gasPrice"))
          ELSE Issue([g EXCEPT !.pc = "getNonce"],
                     Request("eth_getTransactionCount", TRUE,
                             <<bufferToHex(Val(txRequest.from)), "pending">>,
                             Undefined, Undefined))

\* LocalSendTransaction that signs without asking for the missing nonce
LocalSendTransaction_SkipsNonce(f, tx) ==
  IF ~(Len(_getParams(f)) <= 1 /\ DecodesTransactionRequest(TxOf(_getParams(f), tx)))
  THEN Finish(f, InvalidArgumentsError)
  ELSE LET txRequest == DecodeTransactionRequest(tx)
           g == [f EXCEPT !.txRequest = Some(txRequest)]
       IN IF ~IsDefined(txRequest.gas)
          THEN Finish(f, MISSING_TX_PARAM_TO_SIGN_LOCALLY("gas"))
          ELSE IF ~IsDefined(txRequest.from)
          THEN Finish(f, MISSING_TX_PARAM_TO_SIGN_LOCALLY("from"))
          ELSE IF ~IsDefined(txRequest.gasPrice)
          THEN Finish(f, MISSING_TX_PARAM_TO_SIGN_LOCALLY("gasPrice"))
          ELSE LocalSign(g)

\* lines 99-125: the eth_sendTransaction branch up to the nonce
LocalSendTransaction(f, tx) ==
  IF ~(Len(_getParams(f)) <= 1 /\ DecodesTransactionRequest(TxOf(_getParams(f), tx)))
  THEN Finish(f, InvalidArgumentsError)
  ELSE LET txRequest == DecodeTransactionRequest(tx)
           g == [f EXCEPT !.txRequest = Some(txRequest)]
       IN IF ~IsDefined(txRequest.gas)
          THEN Finish(f, MISSING_TX_PARAM_TO_SIGN_LOCALLY("gas"))
          ELSE IF ~IsDefined(txRequest.from)
          THEN Finish(f, MISSING_TX_PARAM_TO_SIGN_LOCALLY("from"))
          ELSE IF ~IsDefined(txRequest.gasPrice)
          THEN Finish(f, MISSING_TX_PARAM_TO_SIGN_LOCALLY("gasPrice"))
          ELSE IF ~IsDefined(txRequest.nonce)
          THEN \* _getNonce, lines 175-181
               Issue([g EXCEPT !.pc = "getNonce"],
                     Request("eth_getTransactionCount", TRUE,
                             <<bufferToHex(Val(txRequest.from)), "pending">>,
                             Undefined, Undefined))
          ELSE LocalSign(g)

\* LocalSignData looking the key up before it tests the data
LocalSignData_KeyFirst(f, address, data, signature) ==
  IF ~IsDefined(_getPrivateKeyForAddress(Val(address)))
  THEN Finish(f, NOT_LOCAL_ACCOUNT(bufferToHex(Val(address))))
  ELSE IF ~IsDefined(data)
       THEN Finish(f, ETHSIGN_MISSING_DATA_PARAM)
       ELSE Finish(f, Result(signature))

\* lines 67-82 and 84-97: eth_sign and eth_signTypedData once the address is
\* there
LocalSignData(f, address, data, signature) ==
  IF ~IsDefined(data)
  THEN Finish(f, ETHSIGN_MISSING_DATA_PARAM)
  ELSE IF ~IsDefined(_getPrivateKeyForAddress(Val(address)))
       THEN Finish(f, NOT_LOCAL_ACCOUNT(bufferToHex(Val(address))))
       ELSE Finish(f, Result(signature))

\* lines 49-144, up to the first request to the inner provider
LocalStart(f, tx) ==
  LET params == _getParams(f)
      address == DecodeData(Param(params, 1))
      forward == Issue([f EXCEPT !.pc = "forward"], Args(f, TxOf(params, tx)))
  IN IF f.method \in {"eth_accounts", "eth_requestAccounts"}
     THEN Finish(f, Result(MapKeys(_addressToPrivateKey)))
     ELSE IF f.method = "eth_sign" /\ Len(params) > 0
     THEN IF ~(/\ Len(params) <= 2
               /\ DecodesAddress(Param(params, 1))
               /\ DecodesData(Param(params, 2)))
          THEN Finish(f, InvalidArgumentsError)
          ELSE IF IsDefined(address)
               THEN LET data == DecodeData(Param(params, 2))
                        privateKey == _getPrivateKeyForAddress(Val(address))
                    IN LocalSignData(f, address, data,
                                     PersonalSign(Val(data), Val(privateKey)))
               ELSE forward
     ELSE IF f.method = "eth_signTypedData"
     THEN IF ~(Len(params) <= 2 /\ DecodesAddress(Param(params, 1)))
          THEN Finish(f, InvalidArgumentsError)
          ELSE IF IsDefined(address)
               THEN LET data == Param(params, 2)
                        privateKey == _getPrivateKeyForAddress(Val(address))
                    IN LocalSignData(f, address, data,
                                     signTypedData_v4(Val(privateKey), Val(data)))
               ELSE forward
     ELSE IF f.method = "eth_sendTransaction" /\ Len(params) > 0
     THEN LocalSendTransaction(f, tx)
     ELSE forward

\* the frames of a call whose innermost request has completed: that request
\* and the handler waiting for it
Inner(c) == Top(stack[c])

Waiting(c) == Top(Pop(stack[c]))

Resumes(c, kinds, pc) ==
  /\ Len(stack[c]) >= 2
  /\ Inner(c).pc = "done"
  /\ Waiting(c).kind \in kinds
  /\ Waiting(c).pc = pc

LocalRequest(c) ==
  /\ stack[c] # <<>>
  /\ Top(stack[c]).kind = "local"
  /\ Top(stack[c]).pc = "start"
  /\ Apply(c, stack[c], LocalStart(Top(stack[c]), heap[c]), heap[c])
  /\ UNCHANGED <<wrapperState, args0, accountsLog, ncalls, nodeVars>>

\* LocalGotNonce that takes a failed lookup for the nonce 0 and goes on
LocalGotNonce_IgnoresFailure(c) ==
  /\ Resumes(c, {"local"}, "getNonce")
  /\ LET response == Inner(c).outcome
         f == Waiting(c)
     IN Apply(c, Pop(stack[c]),
              LocalSign([f EXCEPT !.txRequest =
                     Some([Val(@) EXCEPT !.nonce =
                             Some(rpcQuantityToBN(response.val[1]))])]),
              heap[c])
  /\ UNCHANGED <<wrapperState, args0, accountsLog, ncalls, nodeVars>>

\* lines 124 and 183: the awaited nonce is stored in the decoded request
LocalGotNonce(c) ==
  /\ Resumes(c, {"local"}, "getNonce")
  /\ LET response == Inner(c).outcome
         f == Waiting(c)
     IN Apply(c, Pop(stack[c]),
              IF response.kind = "error"
              THEN Finish(f, response)
              ELSE LocalSign([f EXCEPT !.txRequest =
                     Some([Val(@) EXCEPT !.nonce =
                             Some(rpcQuantityToBN(response.val[1]))])]),
              heap[c])
  /\ UNCHANGED <<wrapperState, args0, accountsLog, ncalls, nodeVars>>

\* _getChainId resumes: the answer is cached and used
LocalGotChainId(c) ==
  /\ Resumes(c, {"local"}, "getChainId")
  /\ LET response == Inner(c).outcome
         f == Waiting(c)
     IN IF response.kind = "error"
        THEN /\ Apply(c, Pop(stack[c]), Finish(f, response), heap[c])
             /\ UNCHANGED _chainId
        ELSE /\ _chainId' = Some(rpcQuantityToBN(response.val[1]))
             /\ Apply(c, Pop(stack[c]),
                      LocalSend(f, rpcQuantityToBN(response.val[1])), heap[c])
  /\ UNCHANGED <<chain, constructorKeys, _addressToPrivateKey,
                 _firstAccount, _sender, args0, accountsLog, ncalls, nodeVars>>

\* return this._wrappedProvider.request(...): the inner provider's outcome is
\* the wrapper's (lines 137, 143 and 267)
Return(c) ==
  /\ Resumes(c, {"local", "auto", "fixed"}, "forward")
  /\ Apply(c, Pop(stack[c]), Finish(Waiting(c), Inner(c).outcome), heap[c])
  /\ UNCHANGED <<wrapperState, args0, accountsLog, ncalls, nodeVars>>

(***************************************************************************)
(* SenderProvider.request, AutomaticSenderProvider, FixedSenderProvider    *)
(***************************************************************************)
SenderMethods == {"eth_sendTransaction", "eth_call", "eth_estimateGas"}

\* NeedsSender without the test of tx.from
NeedsSender_AnyFrom(f, tx) ==
  /\ f.method \in SenderMethods
  /\ IsDefined(TxOf(_getParams(f), tx))

\* line 256: tx !== undefined && tx.from === undefined
NeedsSender(f, tx) ==
  /\ f.method \in SenderMethods
  /\ IsDefined(TxOf(_getParams(f), tx))
  /\ ~IsDefined(Val(tx).from)

\* line 267
SenderForward(f, tx) ==
  Issue([f EXCEPT !.pc = "forward"], Args(f, TxOf(_getParams(f), tx)))

\* line 260: tx.from = senderAccount, on the object params[0] refers to
InjectedTx(tx, senderAccount) ==
  IF IsDefined(senderAccount)
  THEN Some([Val(tx) EXCEPT !.from = senderAccount])
  ELSE tx

\* SenderInject without the throw of line 262
SenderInject_NeverThrows(f, tx, senderAccount) ==
  IF IsDefined(senderAccount)
  THEN SenderForward(f, InjectedTx(tx, senderAccount))
  ELSE SenderForward(f, tx)

\* lines 259-267
SenderInject(f, tx, senderAccount) ==
  IF IsDefined(senderAccount)
  THEN SenderForward(f, InjectedTx(tx, senderAccount))
  ELSE IF f.method = "eth_sendTransaction"
       THEN Finish(f, NO_REMOTE_ACCOUNT_AVAILABLE)
       ELSE SenderForward(f, tx)

\* SenderRequest that asks for the accounts whatever the cache holds
SenderRequest_AlwaysLooksUp(c) ==
  /\ stack[c] # <<>>
  /\ Top(stack[c]).kind \in {"auto", "fixed"}
  /\ Top(stack[c]).pc = "start"
  /\ LET f == Top(stack[c])
         tx == heap[c]
     IN IF ~NeedsSender(f, tx)
        THEN Apply(c, stack[c], SenderForward(f, tx), tx)
        ELSE IF f.kind = "fixed"
        THEN Apply(c, stack[c], SenderInject(f, tx, _sender),
                   InjectedTx(tx, _sender))
        ELSE Apply(c, stack[c],
                   Issue([f EXCEPT !.pc = "getSender"],
                         Request("eth_accounts", FALSE, <<>>, Undefined, Undefined)),
                   tx)
  /\ UNCHANGED <<wrapperState, args0, accountsLog, ncalls, nodeVars>>

\* lines 244-257, with _getSender of either subclass up to its await
SenderRequest(c) ==
  /\ stack[c] # <<>>
  /\ Top(stack[c]).kind \in {"auto", "fixed"}
  /\ Top(stack[c]).pc = "start"
  /\ LET f == Top(stack[c])
         tx == heap[c]
     IN IF ~NeedsSender(f, tx)
        THEN Apply(c, stack[c], SenderForward(f, tx), tx)
        ELSE IF f.kind = "fixed"
        THEN Apply(c, stack[c], SenderInject(f, tx, _sender),
                   InjectedTx(tx, _sender))
        ELSE IF ~IsDefined(_firstAccount)
        THEN Apply(c, stack[c],
                   Issue([f EXCEPT !.pc = "getSender"],
                         Request("eth_accounts", FALSE, <<>>, Undefined, Undefined)),
                   tx)
        ELSE Apply(c, stack[c], SenderInject(f, tx, _firstAccount),
                   InjectedTx(tx, _firstAccount))
  /\ UNCHANGED <<wrapperState, args0, accountsLog, ncalls, nodeVars>>

\* FirstOf taking the last account of the list
FirstOf_Last(accounts) == Param(accounts, IF accounts = <<>> THEN 1 ELSE Len(accounts))

\* line 282: accounts[0], undefined for an empty list
FirstOf(accounts) == Param(accounts, 1)

\* lines 278-285: this._firstAccount = accounts[0], then lines 259-267
SenderGotAccounts(c) ==
  /\ Resumes(c, {"auto"}, "getSender")
  /\ LET response == Inner(c).outcome
         f == Waiting(c)
         tx == heap[c]
     IN /\ accountsLog' = Append(accountsLog, response)
        /\ IF response.kind = "error"
           THEN /\ Apply(c, Pop(stack[c]), Finish(f, response), tx)
                /\ UNCHANGED _firstAccount
           ELSE /\ _firstAccount' = FirstOf(response.val)
                /\ Apply(c, Pop(stack[c]),
                         SenderInject(f, tx, FirstOf(response.val)),
                         InjectedTx(tx, FirstOf(response.val)))
  /\ UNCHANGED <<chain, constructorKeys, _addressToPrivateKey,
                 _chainId, _sender, args0, ncalls, nodeVars>>

(***************************************************************************)
(* The transport: the innermost provider answers or fails                  *)
(***************************************************************************)
Responses(method) ==
  CASE method = "eth_getTransactionCount" -> {<<"0x0">>, <<"0x2">>}
    [] method = "eth_chainId" -> {<<"0x1">>, <<"0x7a69">>}
    [] method \in {"eth_accounts", "eth_requestAccounts"} ->
         {<<>>, <<"0xaa">>, <<"0xBB", "0xaa">>}
    [] OTHER -> {<<"0xr1">>, <<"0xr2">>}

TransportRespond(c) ==
  /\ stack[c] # <<>>
  /\ Top(stack[c]).kind = "transport"
  /\ Top(stack[c]).pc = "pending"
  /\ \E o \in {Result(v) : v \in Responses(Top(stack[c]).method)} \cup {TransportError} :
       Apply(c, stack[c], Finish(Top(stack[c]), o), heap[c])
  /\ UNCHANGED <<wrapperState, args0, accountsLog, ncalls, nodeVars>>

(***************************************************************************)
(* The application's requests                                              *)
(***************************************************************************)
WireTx(from, gas, gasPrice, nonce) ==
  [from |-> from, to |-> Some("0xcc"), gas |-> gas, gasPrice |-> gasPrice,
   value |-> Undefined, data |-> Undefined, nonce |-> nonce]

Froms == {Undefined, Some("0xaa"), Some("0xAA"), Some("0xbb")}

SendTxs ==
  {WireTx(from, gas, gasPrice, nonce) :
     from \in Froms, gas \in {Undefined, Some("0x5208")},
     gasPrice \in {Undefined, Some("0x1")}, nonce \in {Undefined, Some("0x1")}}

CallTxs == {WireTx(from, Some("0x5208"), Undefined, Undefined) : from \in Froms}

Requests ==
       {Request("eth_sendTransaction", TRUE, <<TxRef>>, Some(tx), Undefined) :
          tx \in SendTxs}
  \cup {Request(m, TRUE, <<TxRef>>, Some(tx), Undefined) :
          m \in {"eth_call", "eth_estimateGas"}, tx \in CallTxs}
  \cup {Request("eth_call", TRUE, <<TxRef, "latest">>, Some(tx), Undefined) :
          tx \in CallTxs}
  \cup {Request(m, TRUE, <<>>, Undefined, Undefined) :
          m \in {"eth_sendTransaction", "eth_call", "eth_sign",
                 "eth_signTypedData", "eth_accounts"}}
  \cup {Request(m, FALSE, <<>>, Undefined, Undefined) :
          m \in {"eth_sendTransaction", "eth_accounts", "eth_requestAccounts",
                 "eth_blockNumber", "eth_chainId"}}
  \cup {Request(m, TRUE, ps, Undefined, Undefined) :
          m \in {"eth_sign", "eth_signTypedData"},
          ps \in {<<"0xaa">>, <<"0xAA", "0xdead">>, <<"0xbb">>,
                  <<"0xbb", "0xdead">>, <<"0xzz", "0xdead">>,
                  <<"0xaa", "0xdead", "0x01">>}}
  \cup {Request("eth_getBalance", TRUE, <<"0xaa", "latest">>, Undefined, Undefined),
        Request("eth_getTransactionCount", TRUE, <<"0xaa", "pending">>, Undefined, Undefined),
        Request("eth_sendRawTransaction", TRUE, <<"0xdead">>, Undefined, Undefined)}

Idle(c) == stack[c] = <<>> \/ (Len(stack[c]) = 1 /\ stack[c][1].pc = "done")

\* the application calls request(args) on the outermost wrapper
NewCall(c) ==
  /\ ncalls < MaxCalls
  /\ \A d \in Calls : Idle(d)
  /\ \E req \in Requests :
       /\ args0' = [args0 EXCEPT ![c] = req]
       /\ heap' = [heap EXCEPT ![c] = req.tx]
       /\ stack' = [stack EXCEPT ![c] = <<NewFrame(KindAt(1), req, 0)>>]
  /\ sent' = [sent EXCEPT ![c] = <<>>]
  /\ ncalls' = ncalls + 1
  /\ UNCHANGED <<wrapperState, accountsLog, nodeVars>>

(***************************************************************************)
(* The wrappers under study, each directly in front of the transport       *)
(***************************************************************************)
Chains == {<<"local">>, <<"auto">>, <<"fixed">>}

KeyLists == {<<"0x01", "0x01">>, <<"0x02", "0x01">>}

FixedSenders == {"0xaa", "0xBB"}

Has(ch, kind) == \E i \in 1..Len(ch) : ch[i] = kind

\* one request at a time
OneCall == {1}

\* new LocalAccountsProvider(...), new AutomaticSenderProvider(...), new
\* FixedSenderProvider(...): the wrappers as constructed, nothing requested
Constructed(chains, keyLists, slots) ==
  /\ chain \in chains
  /\ \E keys \in keyLists :
       constructorKeys = IF Has(chain, "local") THEN keys ELSE <<>>
  /\ _addressToPrivateKey = _initializePrivateKeys(constructorKeys)
  /\ _chainId = Undefined
  /\ _firstAccount = Undefined
  /\ \E s \in FixedSenders :
       _sender = IF Has(chain, "fixed") THEN Some(s) ELSE Undefined
  /\ stack = [c \in slots |-> <<>>]
  /\ heap = [c \in slots |-> Undefined]
  /\ args0 = [c \in slots |-> NoRequest]
  /\ sent = [c \in slots |-> <<>>]
  /\ accountsLog = <<>>
  /\ ncalls = 0

\* no operation of hardhat-network's output builders has been applied
NothingCalled ==
  /\ fakeSenderTx = Undefined
  /\ called = [fn |-> "none"]
  /\ returned = Pending

Init == Constructed(Chains, KeyLists, OneCall) /\ NothingCalled

Next ==
  \E c \in OneCall :
    \/ NewCall(c)
    \/ LocalRequest(c)
    \/ LocalGotNonce(c)
    \/ LocalGotChainId(c)
    \/ SenderRequest(c)
    \/ SenderGotAccounts(c)
    \/ Return(c)
    \/ TransportRespond(c)

Spec == Init /\ [][Next]_vars

(***************************************************************************)
(* The composition AutomaticSenderProvider -> LocalAccountsProvider ->     *)
(* transport                                                               *)
(***************************************************************************)
ComposedChains == {<<"auto", "local">>}

ComposedKeyLists == {<<"0x01">>, <<"0x02">>, <<"0x02", "0x01">>}

InitChain ==
  Constructed(ComposedChains, ComposedKeyLists, OneCall) /\ NothingCalled

SpecChain == InitChain /\ [][Next]_vars

(***************************************************************************)
(* Requests made to one AutomaticSenderProvider while others are in flight *)
(***************************************************************************)
ConcurrentCalls == {1, 2}

ConcurrentRequests ==
       {Request("eth_sendTransaction", TRUE, <<TxRef>>, Some(tx), Undefined) :
          tx \in {WireTx(from, Some("0x5208"), Some("0x1"), Undefined) :
                    from \in {Undefined, Some("0xbb")}}}
  \cup {Request("eth_call", TRUE, <<TxRef>>, Some(tx), Undefined) :
          tx \in {WireTx(Undefined, Some("0x5208"), Undefined, Undefined)}}
  \cup {Request("eth_blockNumber", FALSE, <<>>, Undefined, Undefined)}

\* the application calls request(args) without awaiting its earlier requests
ConcurrentCall(c) ==
  /\ ncalls < MaxCalls
  /\ Idle(c)
  /\ \E req \in ConcurrentRequests :
       /\ args0' = [args0 EXCEPT ![c] = req]
       /\ heap' = [heap EXCEPT ![c] = req.tx]
       /\ stack' = [stack EXCEPT ![c] = <<NewFrame(KindAt(1), req, 0)>>]
  /\ sent' = [sent EXCEPT ![c] = <<>>]
  /\ ncalls' = ncalls + 1
  /\ UNCHANGED <<wrapperState, accountsLog, nodeVars>>

InitConcurrent ==
  Constructed({<<"auto">>}, {<<>>}, ConcurrentCalls) /\ NothingCalled

NextConcurrent ==
  \E c \in ConcurrentCalls :
    \/ ConcurrentCall(c)
    \/ SenderRequest(c)
    \/ SenderGotAccounts(c)
    \/ Return(c)
    \/ TransportRespond(c)

SpecConcurrent == InitConcurrent /\ [][NextConcurrent]_vars

(***************************************************************************)
(* hardhat-network's RPC output builders (getRpcBlock, getRpcTransaction,  *)
(* getRpcReceipts, toRpcLogOutput, getRpcLogOutput) and the                *)
(* FakeSenderTransaction.                                                  *)
(*                                                                         *)
(* A wire string is the sequence of its characters after the "0x" prefix,  *)
(* which is its first element; JSON's null is the empty sequence.  Buffers *)
(* are sequences of bytes, BN values are naturals.                         *)
(***************************************************************************)
MaxTxs == 2

MaxLogs == 2

Null == <<>>

HexDigits ==
  <<"0", "1", "2", "3", "4", "5", "6", "7", "8", "9", "a", "b", "c", "d", "e", "f">>

RECURSIVE Hex(_)
Hex(n) ==
  IF n < 16
  THEN <<HexDigits[n + 1]>>
  ELSE Hex(n \div 16) \o <<HexDigits[(n % 16) + 1]>>

\* base-types numberToRpcQuantity: minimal-width hex, "0x0" for zero
numberToRpcQuantity(n) == <<"0x">> \o Hex(n)

RECURSIVE BytesHex(_)
BytesHex(buffer) ==
  IF buffer = <<>>
  THEN <<>>
  ELSE <<HexDigits[(Head(buffer) \div 16) + 1], HexDigits[(Head(buffer) % 16) + 1]>>
       \o BytesHex(Tail(buffer))

\* base-types bufferToRpcData: two digits a byte, left-padded with zero bytes
\* up to pad bytes
bufferToRpcData(buffer, pad) ==
  <<"0x">>
  \o BytesHex(IF Len(buffer) < pad
              THEN [i \in 1..(pad - Len(buffer)) |-> 0] \o buffer
              ELSE buffer)

\* new BN(buffer): the big-endian value
RECURSIVE BN(_)
BN(buffer) ==
  IF buffer = <<>>
  THEN 0
  ELSE 256 * BN(SubSeq(buffer, 1, Len(buffer) - 1)) + buffer[Len(buffer)]

\* the number a quantity string encodes
DigitValue(ch) == CHOOSE d \in 0..15 : HexDigits[d + 1] = ch

RECURSIVE HexValue(_)
HexValue(digits) ==
  IF digits = <<>>
  THEN 0
  ELSE 16 * HexValue(SubSeq(digits, 1, Len(digits) - 1))
       + DigitValue(digits[Len(digits)])

QuantityValue(q) == HexValue(Tail(q))

\* the bytes a data string encodes, two digits a byte
RECURSIVE HexBytes(_)
HexBytes(digits) ==
  IF digits = <<>>
  THEN <<>>
  ELSE <<16 * DigitValue(digits[1]) + DigitValue(digits[2])>>
       \o HexBytes(SubSeq(digits, 3, Len(digits)))

\* base-types codecs rpcQuantity, and rpcData, rpcHash, rpcAddress: a wire
\* string decoded to a BN, to a Buffer
rpcQuantity(q) == QuantityValue(q)

rpcData(d) == HexBytes(Tail(d))

\* assertHardhatInvariant(false, message)
InvariantViolation(message) == Error(<<"HardhatError: invariant violated", message>>)

InternalError(message) == Error(<<"InternalError", message>>)

\* a transaction of @ethereumjs/tx: hash() and getSenderAddress() as fields
Tx(id, to, v, r, s) ==
  [nonce |-> id, gasPrice |-> 8, gasLimit |-> 21000, to |-> to, value |-> 0,
   data |-> <<>>, v |-> v, r |-> r, s |-> s,
   hash |-> <<160 + id>>, sender |-> <<170>>]

Txs ==
  {Tx(id, to, v, r, s) :
     id \in {1, 2}, to \in {Undefined, Some(<<204>>)},
     v \in {Undefined, Some(27)}, r \in {Undefined, Some(1)},
     s \in {Undefined, Some(2)}}

SignedTxs == {tx \in Txs : IsDefined(tx.v) /\ IsDefined(tx.r) /\ IsDefined(tx.s)}

SeqsUpTo(S, n) == UNION {[1..k -> S] : k \in 0..n}

\* a block of @ethereumjs/block: hash(), serialize().length as fields
Block(number, nonce, transactions) ==
  [header |-> [number |-> number, parentHash |-> <<16>>, nonce |-> nonce,
               mixHash |-> <<>>, uncleHash |-> <<29>>, bloom |-> <<0, 0>>,
               transactionsTrie |-> <<86>>, stateRoot |-> <<87>>,
               receiptTrie |-> <<88>>, coinbase |-> <<192>>,
               difficulty |-> 1, extraData |-> <<>>, gasLimit |-> 9500000,
               gasUsed |-> 21000 * Len(transactions), timestamp |-> 1600000000],
   hash |-> <<176 + (number % 16)>>,
   size |-> 500 + 100 * Len(transactions),
   transactions |-> transactions,
   uncleHeaders |-> <<>>]

\* what a block that was mined, or is being built, can hold
ExecutedBlocks ==
  {Block(number, nonce, transactions) :
     number \in {0, 300}, nonce \in {<<66>>},
     transactions \in SeqsUpTo({Tx(1, Some(<<204>>), Some(27), Some(1), Some(2)),
                                Tx(2, Undefined, Some(27), Some(1), Some(2))},
                               MaxTxs)}

\* and blocks with an unsigned transaction, which no caller should pass
Blocks ==
  ExecutedBlocks
  \cup {Block(7, <<>>, <<tx>>) :
          tx \in {Tx(1, Undefined, Undefined, Some(1), Some(2)),
                  Tx(1, Undefined, Some(27), Some(1), Undefined)}}

\* the three assertions with only the first made
IsSigned_ChecksV(tx) == tx.v # Undefined

\* lines 303-305: tx.v, tx.r and tx.s are all defined
IsSigned(tx) == tx.v # Undefined /\ tx.r # Undefined /\ tx.s # Undefined

\* new BN(x) of an optional BN: bn.js reads undefined as 0
BNOf(x) == IF x = Undefined THEN 0 ELSE Val(x)

\* lines 296-326; block is Undefined for the literal "pending", index is
\* Undefined when the argument is omitted
getRpcTransaction(tx, block, index) ==
  IF ~IsSigned(tx)
  THEN InvariantViolation("tx should be signed")
  ELSE Result(
    [blockHash |-> IF block = Undefined THEN Null
                   ELSE bufferToRpcData(Val(block).hash, 0),
     blockNumber |-> IF block = Undefined THEN Null
                     ELSE numberToRpcQuantity(Val(block).header.number),
     from |-> bufferToRpcData(tx.sender, 0),
     gas |-> numberToRpcQuantity(tx.gasLimit),
     gasPrice |-> numberToRpcQuantity(tx.gasPrice),
     hash |-> bufferToRpcData(tx.hash, 0),
     input |-> bufferToRpcData(tx.data, 0),
     nonce |-> numberToRpcQuantity(tx.nonce),
     to |-> IF tx.to = Undefined THEN Null ELSE bufferToRpcData(Val(tx.to), 0),
     transactionIndex |-> IF index # Undefined
                          THEN numberToRpcQuantity(Val(index)) ELSE Null,
     value |-> numberToRpcQuantity(tx.value),
     v |-> numberToRpcQuantity(BNOf(tx.v)),
     r |-> numberToRpcQuantity(BNOf(tx.r)),
     s |-> numberToRpcQuantity(BNOf(tx.s))])

\* the first element of a sequence of outcomes that is an error
FirstError(outcomes) ==
  outcomes[CHOOSE i \in 1..Len(outcomes) :
             /\ outcomes[i].kind = "error"
             /\ \A j \in 1..(i - 1) : outcomes[j].kind # "error"]

\* the ternary that never answers null
NullIfPending_Never(pending, v) == v

\* lines 260-268: pending ? null : v
NullIfPending(pending, v) == IF pending THEN Null ELSE v

\* lines 249-283
getRpcBlock(block, totalDifficulty, includeTransactions, pending) ==
  LET txs == block.transactions
      full == [i \in 1..Len(txs) |->
                 getRpcTransaction(txs[i], Some(block), Some(i - 1))]
  IN IF includeTransactions /\ \E i \in 1..Len(txs) : full[i].kind = "error"
     THEN FirstError(full)
     ELSE Result(
       [number |-> NullIfPending(pending,
                                 numberToRpcQuantity(block.header.number)),
        hash |-> NullIfPending(pending, bufferToRpcData(block.hash, 0)),
        parentHash |-> bufferToRpcData(block.header.parentHash, 0),
        nonce |-> NullIfPending(pending,
                                bufferToRpcData(block.header.nonce, 8)),
        mixHash |-> NullIfPending(pending,
                                  bufferToRpcData(block.header.mixHash, 32)),
        sha3Uncles |-> bufferToRpcData(block.header.uncleHash, 0),
        logsBloom |-> NullIfPending(pending,
                                    bufferToRpcData(block.header.bloom, 0)),
        transactionsRoot |-> bufferToRpcData(block.header.transactionsTrie, 0),
        stateRoot |-> bufferToRpcData(block.header.stateRoot, 0),
        receiptsRoot |-> bufferToRpcData(block.header.receiptTrie, 0),
        miner |-> bufferToRpcData(block.header.coinbase, 0),
        difficulty |-> numberToRpcQuantity(block.header.difficulty),
        totalDifficulty |-> numberToRpcQuantity(totalDifficulty),
        extraData |-> bufferToRpcData(block.header.extraData, 0),
        size |-> numberToRpcQuantity(block.size),
        gasLimit |-> numberToRpcQuantity(block.header.gasLimit),
        gasUsed |-> numberToRpcQuantity(block.header.gasUsed),
        timestamp |-> numberToRpcQuantity(block.header.timestamp),
        transactions |->
          IF includeTransactions
          THEN [i \in 1..Len(txs) |-> full[i].val]
          ELSE [i \in 1..Len(txs) |-> bufferToRpcData(txs[i].hash, 0)],
        uncles |-> [i \in 1..Len(block.uncleHeaders) |->
                      bufferToRpcData(block.uncleHeaders[i].hash, 0)]])

\* getRpcLogOutput that leaves the position within the receipt out
getRpcLogOutput_NoLogIndex(log, tx, block, transactionIndex, logIndex) ==
  [removed |-> FALSE,
   logIndex |-> Null,
   transactionIndex |-> IF transactionIndex # Undefined
                        THEN numberToRpcQuantity(Val(transactionIndex)) ELSE Null,
   transactionHash |-> IF block # Undefined
                       THEN bufferToRpcData(tx.hash, 0) ELSE Null,
   blockHash |-> IF block # Undefined
                 THEN bufferToRpcData(Val(block).hash, 0) ELSE Null,
   blockNumber |-> IF block # Undefined
                   THEN numberToRpcQuantity(Val(block).header.number) ELSE Null,
   address |-> bufferToRpcData(log[1], 0),
   data |-> bufferToRpcData(log[3], 0),
   topics |-> [k \in 1..Len(log[2]) |-> bufferToRpcData(log[2][k], 0)]]

\* lines 412-436; a log is the array [address, topics, data]; block,
\* transactionIndex and logIndex are Undefined when omitted
getRpcLogOutput(log, tx, block, transactionIndex, logIndex) ==
  [removed |-> FALSE,
   logIndex |-> IF logIndex # Undefined
                THEN numberToRpcQuantity(Val(logIndex)) ELSE Null,
   transactionIndex |-> IF transactionIndex # Undefined
                        THEN numberToRpcQuantity(Val(transactionIndex)) ELSE Null,
   transactionHash |-> IF block # Undefined
                       THEN bufferToRpcData(tx.hash, 0) ELSE Null,
   blockHash |-> IF block # Undefined
                 THEN bufferToRpcData(Val(block).hash, 0) ELSE Null,
   blockNumber |-> IF block # Undefined
                   THEN numberToRpcQuantity(Val(block).header.number) ELSE Null,
   address |-> bufferToRpcData(log[1], 0),
   data |-> bufferToRpcData(log[3], 0),
   topics |-> [k \in 1..Len(log[2]) |-> bufferToRpcData(log[2][k], 0)]]

\* lines 391-410; a decoded RpcLog holds Null or a decoded value; index is
\* Undefined when omitted
toRpcLogOutput(log, index) ==
  [removed |-> FALSE,
   address |-> bufferToRpcData(log.address, 0),
   blockHash |-> IF log.blockHash # Null
                 THEN bufferToRpcData(Val(log.blockHash), 0) ELSE Null,
   blockNumber |-> IF log.blockNumber # Null
                   THEN numberToRpcQuantity(Val(log.blockNumber)) ELSE Null,
   data |-> bufferToRpcData(log.data, 0),
   logIndex |-> IF index # Undefined
                THEN numberToRpcQuantity(Val(index)) ELSE Null,
   transactionIndex |-> IF log.transactionIndex # Null
                        THEN numberToRpcQuantity(Val(log.transactionIndex))
                        ELSE Null,
   transactionHash |-> IF log.transactionHash # Null
                       THEN bufferToRpcData(Val(log.transactionHash), 0)
                       ELSE Null,
   topics |-> [k \in 1..Len(log.topics) |-> bufferToRpcData(log.topics[k], 0)]]

\* lines 334 and 341: the sum of receipts[0..i].gasUsed, i counted from 1
RECURSIVE CumulativeGasUsed(_, _)
CumulativeGasUsed(receipts, i) ==
  IF i = 0 THEN 0 ELSE CumulativeGasUsed(receipts, i - 1) + BN(receipts[i].gasUsed)

\* lines 328-367
getRpcReceipts(block, runBlockResult) ==
  [i \in 1..Len(runBlockResult.results) |->
     LET tx == block.transactions[i]
         createdAddress == runBlockResult.results[i].createdAddress
         gasUsed == runBlockResult.results[i].gasUsed
         receipt == runBlockResult.receipts[i]
     IN [transactionHash |-> bufferToRpcData(tx.hash, 0),
         transactionIndex |-> numberToRpcQuantity(i - 1),
         blockHash |-> bufferToRpcData(block.hash, 0),
         blockNumber |-> numberToRpcQuantity(block.header.number),
         from |-> bufferToRpcData(tx.sender, 0),
         to |-> IF tx.to = Undefined THEN Null
                ELSE bufferToRpcData(Val(tx.to), 0),
         cumulativeGasUsed |->
           numberToRpcQuantity(CumulativeGasUsed(runBlockResult.receipts, i)),
         gasUsed |-> numberToRpcQuantity(gasUsed),
         contractAddress |-> IF createdAddress # Undefined
                             THEN bufferToRpcData(Val(createdAddress), 0)
                             ELSE Null,
         logs |-> [k \in 1..Len(receipt.logs) |->
                     getRpcLogOutput(receipt.logs[k], tx, Some(block),
                                     Some(i - 1), Some(k - 1))],
         logsBloom |-> bufferToRpcData(receipt.bitvector, 0),
         status |-> numberToRpcQuantity(receipt.status)]]

\* toRpcReceiptOutput that calls toRpcLogOutput without the position
toRpcReceiptOutput_NoLogIndex(receipt) ==
  [blockHash |-> bufferToRpcData(receipt.blockHash, 0),
   blockNumber |-> numberToRpcQuantity(receipt.blockNumber),
   contractAddress |-> IF receipt.contractAddress # Null
                       THEN bufferToRpcData(Val(receipt.contractAddress), 0)
                       ELSE Null,
   cumulativeGasUsed |-> numberToRpcQuantity(receipt.cumulativeGasUsed),
   from |-> bufferToRpcData(receipt.from, 0),
   gasUsed |-> numberToRpcQuantity(receipt.gasUsed),
   logs |-> [k \in 1..Len(receipt.logs) |->
               toRpcLogOutput(receipt.logs[k], Undefined)],
   logsBloom |-> bufferToRpcData(receipt.logsBloom, 0),
   status |-> numberToRpcQuantity(receipt.status),
   to |-> IF receipt.to # Null
          THEN bufferToRpcData(Val(receipt.to), 0) ELSE Null,
   transactionHash |-> bufferToRpcData(receipt.transactionHash, 0),
   transactionIndex |-> numberToRpcQuantity(receipt.transactionIndex)]

\* lines 369-389; receipt.logs.map(toRpcLogOutput) calls toRpcLogOutput with
\* the log and its position in receipt.logs
toRpcReceiptOutput(receipt) ==
  [blockHash |-> bufferToRpcData(receipt.blockHash, 0),
   blockNumber |-> numberToRpcQuantity(receipt.blockNumber),
   contractAddress |-> IF receipt.contractAddress # Null
                       THEN bufferToRpcData(Val(receipt.contractAddress), 0)
                       ELSE Null,
   cumulativeGasUsed |-> numberToRpcQuantity(receipt.cumulativeGasUsed),
   from |-> bufferToRpcData(receipt.from, 0),
   gasUsed |-> numberToRpcQuantity(receipt.gasUsed),
   logs |-> [k \in 1..Len(receipt.logs) |->
               toRpcLogOutput(receipt.logs[k], Some(k - 1))],
   logsBloom |-> bufferToRpcData(receipt.logsBloom, 0),
   status |-> numberToRpcQuantity(receipt.status),
   to |-> IF receipt.to # Null
          THEN bufferToRpcData(Val(receipt.to), 0) ELSE Null,
   transactionHash |-> bufferToRpcData(receipt.transactionHash, 0),
   transactionIndex |-> numberToRpcQuantity(receipt.transactionIndex)]

\* io-ts nullable(rpcQuantity), nullable(rpcData): null stays null
nullableQuantity(x) == IF x = Null THEN Null ELSE Some(rpcQuantity(x))

nullableData(x) == IF x = Null THEN Null ELSE Some(rpcData(x))

\* the RpcLog record that the codec rpcLog decodes from a wire log
rpcLog(log) ==
  [logIndex |-> nullableQuantity(log.logIndex),
   transactionIndex |-> nullableQuantity(log.transactionIndex),
   transactionHash |-> nullableData(log.transactionHash),
   blockHash |-> nullableData(log.blockHash),
   blockNumber |-> nullableQuantity(log.blockNumber),
   address |-> rpcData(log.address),
   data |-> rpcData(log.data),
   topics |-> [k \in 1..Len(log.topics) |-> rpcData(log.topics[k])]]

\* accounts.ts lines 306-323: the RpcTransactionReceipt record that the codec
\* rpcTransactionReceipt decodes from a wire receipt
rpcTransactionReceipt(receipt) ==
  [transactionHash |-> rpcData(receipt.transactionHash),
   transactionIndex |-> rpcQuantity(receipt.transactionIndex),
   blockHash |-> rpcData(receipt.blockHash),
   blockNumber |-> rpcQuantity(receipt.blockNumber),
   from |-> rpcData(receipt.from),
   to |-> nullableData(receipt.to),
   cumulativeGasUsed |-> rpcQuantity(receipt.cumulativeGasUsed),
   gasUsed |-> rpcQuantity(receipt.gasUsed),
   contractAddress |-> nullableData(receipt.contractAddress),
   logs |-> [k \in 1..Len(receipt.logs) |-> rpcLog(receipt.logs[k])],
   logsBloom |-> rpcData(receipt.logsBloom),
   status |-> rpcQuantity(receipt.status)]

\* what the execution of one transaction reports: results[i].gasUsed, a BN,
\* receipts[i].gasUsed, a Buffer, and the number of logs of receipts[i]
Executions ==
  {[gasUsed |-> 21000, receiptGasUsed |-> <<82, 8>>, nlogs |-> 0],
   [gasUsed |-> 30000, receiptGasUsed |-> <<117, 48>>, nlogs |-> MaxLogs],
   [gasUsed |-> 30000, receiptGasUsed |-> <<199, 56>>, nlogs |-> 0],
   [gasUsed |-> 21000, receiptGasUsed |-> <<199, 56>>, nlogs |-> MaxLogs]}

Logs(n) == [k \in 1..n |-> << <<204>>, << <<k>> >>, <<222, 173>> >>]

RunBlockResults(block) ==
  LET n == Len(block.transactions)
  IN {[results |-> [i \in 1..n |->
                      [createdAddress |->
                         IF block.transactions[i].to = Undefined
                         THEN Some(<<221>>) ELSE Undefined,
                       gasUsed |-> e[i].gasUsed]],
       receipts |-> [i \in 1..n |->
                       [gasUsed |-> e[i].receiptGasUsed, bitvector |-> <<0, 0>>,
                        logs |-> Logs(e[i].nlogs), status |-> 1]]] :
        e \in [1..n -> Executions]}

\* decoded RpcLog records: of a mined block, and of a pending one
RpcLogs ==
  {[address |-> <<204>>, blockHash |-> Some(<<176>>), blockNumber |-> Some(300),
    data |-> <<222, 173>>, logIndex |-> Some(0), transactionIndex |-> Some(1),
    transactionHash |-> Some(<<161>>), topics |-> << <<1>> >>],
   [address |-> <<204>>, blockHash |-> Null, blockNumber |-> Null,
    data |-> <<>>, logIndex |-> Null, transactionIndex |-> Null,
    transactionHash |-> Null, topics |-> <<>>]}

(***************************************************************************)
(* FakeSenderTransaction: TxData is the object of the keys that are set    *)
(***************************************************************************)
\* { ...a, ...b }: the keys of both, b's value where both have the key
Spread(a, b) ==
  [k \in DOMAIN a \cup DOMAIN b |-> IF k \in DOMAIN b THEN b[k] ELSE a[k]]

\* lines 77-81: super({ v: 27, r: 1, s: 2, ...data }, ...); this._sender = sender
NewFakeSenderTransaction(sender, data) ==
  [_sender |-> sender,
   txData |-> Spread([v |-> Some(<<27>>), r |-> Some(<<1>>), s |-> Some(<<2>>)],
                     data)]

\* values[i] of a JavaScript array: undefined past its end
At(values, i) == IF i < Len(values) THEN Some(values[i + 1]) ELSE Undefined

\* lines 45-75
fromSenderAndValuesArray(sender, values) ==
  IF Len(values) # 6 /\ Len(values) # 9
  THEN InternalError("FakeSenderTransaction initialized with invalid values")
  ELSE Result(NewFakeSenderTransaction(sender,
         [nonce |-> At(values, 0), gasPrice |-> At(values, 1),
          gasLimit |-> At(values, 2),
          to |-> IF At(values, 3) # Undefined /\ Len(Val(At(values, 3))) > 0
                 THEN At(values, 3) ELSE Undefined,
          value |-> At(values, 4), data |-> At(values, 5),
          v |-> At(values, 6), r |-> At(values, 7), s |-> At(values, 8)]))

Senders == {<<170>>, <<187>>}

TxDatas ==
  {[nonce |-> Some(<<1>>)],
   [nonce |-> Some(<<1>>), to |-> Some(<<204>>), v |-> Some(<<28>>),
    r |-> Some(<<9>>), s |-> Some(<<9>>)]}

ValuesArrays ==
  {<< <<1>>, <<8>>, <<82, 8>>, <<204>>, <<>> >>,
   << <<1>>, <<8>>, <<82, 8>>, <<>>, <<>>, <<>> >>,
   << <<1>>, <<8>>, <<82, 8>>, <<204>>, <<>>, <<>>, <<28>>, <<9>>, <<9>> >>}

\* lines 83-85
verifySignature(this) == Result(TRUE)

\* lines 87-89
getSenderAddress(this) == Result(this._sender)

\* sign that returns the transaction
sign_Returns(this) == Result(this)

\* lines 91-95
sign(this) == InternalError("sign is not implemented in FakeSenderTransaction")

\* lines 97-101
getSenderPublicKey(this) ==
  InternalError("getSenderPublicKey is not implemented in FakeSenderTransaction")

\* lines 103-107
getMessageToVerifySignature(this) ==
  InternalError("getMessageToVerifySignature is not implemented in FakeSenderTransaction")

\* lines 109-113
getMessageToSign(this) ==
  InternalError("getMessageToSign is not implemented in FakeSenderTransaction")

(***************************************************************************)
(* The operations, applied to arguments drawn from the sets above          *)
(***************************************************************************)
TotalDifficulties == {17}

\* the applications under study: the operation and its arguments
NodeCalls ==
       {[fn |-> "getRpcBlock", block |-> block,
         totalDifficulty |-> totalDifficulty,
         includeTransactions |-> includeTransactions, pending |-> pending] :
          block \in Blocks, totalDifficulty \in TotalDifficulties,
          includeTransactions \in BOOLEAN, pending \in BOOLEAN}
  \cup {[fn |-> "getRpcTransaction", tx |-> tx, block |-> block,
         index |-> index] :
          tx \in Txs,
          block \in {Undefined}
                     \cup {Some(b) : b \in {x \in ExecutedBlocks :
                                              Len(x.transactions) <= 1}},
          index \in {Undefined, Some(0), Some(1)}}
  \cup UNION {{[fn |-> "getRpcReceipts", block |-> block,
                runBlockResult |-> runBlockResult] :
                 runBlockResult \in RunBlockResults(block)} :
                block \in {b \in ExecutedBlocks : b.header.number = 300}}
  \cup {[fn |-> "toRpcLogOutput", log |-> log, index |-> index] :
          log \in RpcLogs, index \in {Undefined, Some(0), Some(3)}}
  \cup {[fn |-> "new FakeSenderTransaction", sender |-> sender, data |-> data] :
          sender \in Senders, data \in TxDatas}
  \cup {[fn |-> "fromSenderAndValuesArray", sender |-> sender,
         values |-> values] :
          sender \in Senders, values \in ValuesArrays}

\* the operation fn was called and has not returned
Calling(fn) == called.fn = fn /\ returned.kind = "pending"

GetRpcBlock ==
  /\ Calling("getRpcBlock")
  /\ returned' = getRpcBlock(called.block, called.totalDifficulty,
                             called.includeTransactions, called.pending)
  /\ UNCHANGED <<providerVars, fakeSenderTx, called>>

GetRpcTransaction ==
  /\ Calling("getRpcTransaction")
  /\ returned' = getRpcTransaction(called.tx, called.block, called.index)
  /\ UNCHANGED <<providerVars, fakeSenderTx, called>>

GetRpcReceipts ==
  /\ Calling("getRpcReceipts")
  /\ returned' = Result(getRpcReceipts(called.block, called.runBlockResult))
  /\ UNCHANGED <<providerVars, fakeSenderTx, called>>

ToRpcLogOutput ==
  /\ Calling("toRpcLogOutput")
  /\ returned' = Result(toRpcLogOutput(called.log, called.index))
  /\ UNCHANGED <<providerVars, fakeSenderTx, called>>

\* one receipt that getRpcReceipts built is stored as its canonical record
\* and the record is later handed to toRpcReceiptOutput; built keeps the
\* receipt the record was decoded from
PersistReceipt ==
  /\ called.fn = "getRpcReceipts"
  /\ returned.kind = "result"
  /\ \E i \in 1..Len(returned.val) :
       called' = [fn |-> "toRpcReceiptOutput",
                  receipt |-> rpcTransactionReceipt(returned.val[i]),
                  built |-> returned.val[i]]
  /\ returned' = Pending
  /\ UNCHANGED <<providerVars, fakeSenderTx>>

ToRpcReceiptOutput ==
  /\ Calling("toRpcReceiptOutput")
  /\ returned' = Result(toRpcReceiptOutput(called.receipt))
  /\ UNCHANGED <<providerVars, fakeSenderTx, called>>

\* new FakeSenderTransaction(sender, data)
Construct ==
  /\ Calling("new FakeSenderTransaction")
  /\ fakeSenderTx' = Some(NewFakeSenderTransaction(called.sender, called.data))
  /\ returned' = Result(<<>>)
  /\ UNCHANGED <<providerVars, called>>

\* FakeSenderTransaction.fromSenderAndValuesArray(sender, values)
FromSenderAndValuesArray ==
  /\ Calling("fromSenderAndValuesArray")
  /\ LET outcome == fromSenderAndValuesArray(called.sender, called.values)
     IN /\ fakeSenderTx' = IF outcome.kind = "error" THEN fakeSenderTx
                           ELSE Some(outcome.val)
        /\ returned' = IF outcome.kind = "error" THEN outcome ELSE Result(<<>>)
  /\ UNCHANGED <<providerVars, called>>

\* a method of the FakeSenderTransaction that was built is called
VerifySignature ==
  /\ fakeSenderTx # Undefined
  /\ called' = [fn |-> "verifySignature"]
  /\ returned' = verifySignature(Val(fakeSenderTx))
  /\ UNCHANGED <<providerVars, fakeSenderTx>>

GetSenderAddress ==
  /\ fakeSenderTx # Undefined
  /\ called' = [fn |-> "getSenderAddress"]
  /\ returned' = getSenderAddress(Val(fakeSenderTx))
  /\ UNCHANGED <<providerVars, fakeSenderTx>>

Sign ==
  /\ fakeSenderTx # Undefined
  /\ called' = [fn |-> "sign"]
  /\ returned' = sign(Val(fakeSenderTx))
  /\ UNCHANGED <<providerVars, fakeSenderTx>>

GetSenderPublicKey ==
  /\ fakeSenderTx # Undefined
  /\ called' = [fn |-> "getSenderPublicKey"]
  /\ returned' = getSenderPublicKey(Val(fakeSenderTx))
  /\ UNCHANGED <<providerVars, fakeSenderTx>>

GetMessageToVerifySignature ==
  /\ fakeSenderTx # Undefined
  /\ called' = [fn |-> "getMessageToVerifySignature"]
  /\ returned' = getMessageToVerifySignature(Val(fakeSenderTx))
  /\ UNCHANGED <<providerVars, fakeSenderTx>>

GetMessageToSign ==
  /\ fakeSenderTx # Undefined
  /\ called' = [fn |-> "getMessageToSign"]
  /\ returned' = getMessageToSign(Val(fakeSenderTx))
  /\ UNCHANGED <<providerVars, fakeSenderTx>>

\* no provider wrapper is under study; one application is about to be made
InitNode ==
  /\ Constructed({<<>>}, {<<>>}, {})
  /\ fakeSenderTx = Undefined
  /\ called \in NodeCalls
  /\ returned = Pending

NextNode ==
  \/ GetRpcBlock
  \/ GetRpcTransaction
  \/ GetRpcReceipts
  \/ ToRpcLogOutput
  \/ PersistReceipt
  \/ ToRpcReceiptOutput
  \/ Construct
  \/ FromSenderAndValuesArray
  \/ VerifySignature
  \/ GetSenderAddress
  \/ Sign
  \/ GetSenderPublicKey
  \/ GetMessageToVerifySignature
  \/ GetMessageToSign

SpecNode == InitNode /\ [][NextNode]_vars

(***************************************************************************)
(* Vocabulary of the properties                                            *)
(***************************************************************************)
\* the outermost wrapper has settled the promise of call c
Done(c) == Len(stack[c]) = 1 /\ stack[c][1].pc = "done"

Outcome(c) == stack[c][1].outcome

Outer == KindAt(1)

\* the requests the outermost wrapper of call c issued to its inner provider
Issued(c) == {i \in 1..Len(sent[c]) : sent[c][i].depth = 1}

IssuedOf(c, method) == {i \in Issued(c) : sent[c][i].method = method}

CallerTx(c) == Val(args0[c].tx)

HasTx(c) ==
  /\ Len(args0[c].params) > 0
  /\ args0[c].params[1] = TxRef
  /\ IsDefined(args0[c].tx)

\* the registry of the LocalAccountsProvider holds the address
Holds(address) ==
  \E i \in 1..Len(_addressToPrivateKey) :
    _addressToPrivateKey[i].address = toLowerCase(address)

KeyOf(address) ==
  (CHOOSE e \in {_addressToPrivateKey[i] : i \in 1..Len(_addressToPrivateKey)} :
     e.address = toLowerCase(address)).pk

\* eth_sendTransaction to a LocalAccountsProvider with a transaction object
LocalSendCase(c) ==
  /\ Outer = "local"
  /\ args0[c].method = "eth_sendTransaction"
  /\ HasTx(c)

Signable(c) ==
  /\ IsDefined(CallerTx(c).gas)
  /\ IsDefined(CallerTx(c).from)
  /\ IsDefined(CallerTx(c).gasPrice)

(***************************************************************************)
(* C1: a LocalAccountsProvider that holds A turns eth_sendTransaction with *)
(* from = A, gas and gasPrice into eth_sendRawTransaction: no              *)
(* eth_sendTransaction is ever forwarded, a call that returns a result has *)
(* forwarded exactly one eth_sendRawTransaction, last, with the serialized *)
(* transaction signed with A's key as its only parameter, and returns what *)
(* the inner provider answered to it; a call that fails has failed with    *)
(* the failure of the last request it issued.                              *)
(***************************************************************************)
C1_Case(c) ==
  /\ LocalSendCase(c)
  /\ Signable(c)
  /\ Holds(Val(CallerTx(c).from))

C1_SendRaw ==
  \A c \in Calls :
    C1_Case(c) =>
      /\ IssuedOf(c, "eth_sendTransaction") = {}
      /\ Cardinality(IssuedOf(c, "eth_sendRawTransaction")) <= 1
      /\ \A i \in IssuedOf(c, "eth_sendRawTransaction") :
           /\ i = Len(sent[c])
           /\ sent[c][i].params = <<RawRef>>
           /\ IsDefined(sent[c][i].raw)
           /\ Val(sent[c][i].raw).signedWith = KeyOf(Val(CallerTx(c).from))
      /\ Done(c) =>
           /\ sent[c] # <<>>
           /\ Outcome(c) = sent[c][Len(sent[c])].outcome
           /\ Outcome(c).kind = "result" =>
                Cardinality(IssuedOf(c, "eth_sendRawTransaction")) = 1

C1_Witness ==
  \E c \in Calls :
    /\ C1_Case(c)
    /\ Done(c)
    /\ Outcome(c) = Result(<<"0xr2">>)
    /\ IssuedOf(c, "eth_sendRawTransaction") # {}
    /\ CallerTx(c).from = Some("0xAA")

(***************************************************************************)
(* C2: eth_sendTransaction to a LocalAccountsProvider without gas, from or *)
(* gasPrice fails with the missing-field error naming the first absent one *)
(* of gas, from, gasPrice, and issues no request to the inner provider.    *)
(***************************************************************************)
C2_FirstMissing(tx) ==
  IF ~IsDefined(tx.gas) THEN "gas"
  ELSE IF ~IsDefined(tx.from) THEN "from"
  ELSE "gasPrice"

C2_MissingField ==
  \A c \in Calls :
    (LocalSendCase(c) /\ ~Signable(c)) =>
      /\ sent[c] = <<>>
      /\ Len(stack[c]) = 1
      /\ Done(c) =>
           Outcome(c) = Error(<<"MISSING_TX_PARAM_TO_SIGN_LOCALLY",
                                C2_FirstMissing(CallerTx(c))>>)

C2_Witness ==
  \E c \in Calls :
    /\ LocalSendCase(c)
    /\ ~IsDefined(CallerTx(c).from)
    /\ ~IsDefined(CallerTx(c).gasPrice)
    /\ IsDefined(CallerTx(c).gas)
    /\ Done(c)
    /\ Outcome(c).kind = "error"

(***************************************************************************)
(* C3: no wrapper mutates the caller's request: when a call has completed, *)
(* the transaction object params[0] refers to is what it was at the call.  *)
(***************************************************************************)
C3_CallerObjectUntouched ==
  \A c \in Calls : Done(c) => heap[c] = args0[c].tx

(***************************************************************************)
(* Vocabulary of the sender-default wrappers                               *)
(***************************************************************************)
SenderCase(c) ==
  /\ Outer \in {"auto", "fixed"}
  /\ args0[c].method \in SenderMethods
  /\ HasTx(c)

\* the caller's request as forwarded, and the wrapper's own eth_accounts
\* lookups, among the requests a sender-default wrapper issued
Forwarded(c) == {i \in Issued(c) : sent[c][i].method = args0[c].method}

Lookups(c) == IssuedOf(c, "eth_accounts")

NoAccount(outcome) == outcome.kind = "error" \/ outcome.val = <<>>

(***************************************************************************)
(* C4 as claimed: once an eth_accounts lookup of an AutomaticSenderProvider*)
(* has been answered, by whatever list, the wrapper issues no other: every *)
(* lookup that is followed by another one has failed.                      *)
(***************************************************************************)
C4_AtMostOnce ==
  \A i \in 1..(Len(accountsLog) - 1) : accountsLog[i].kind = "error"

(***************************************************************************)
(* C4 amended: an AutomaticSenderProvider issues no eth_accounts lookup    *)
(* after one was answered with a non-empty list (a lookup that failed or   *)
(* was answered with the empty list is repeated by the next request that   *)
(* needs a sender), at most one lookup per request, and the cache and      *)
(* every injected sender are the first address of that non-empty answer.   *)
(***************************************************************************)
C4_OnceAnAccount ==
  Outer = "auto" =>
    /\ \A i \in 1..(Len(accountsLog) - 1) : NoAccount(accountsLog[i])
    /\ IF accountsLog # <<>> /\ ~NoAccount(accountsLog[Len(accountsLog)])
       THEN _firstAccount = Some(accountsLog[Len(accountsLog)].val[1])
       ELSE _firstAccount = Undefined
    /\ \A c \in Calls :
         SenderCase(c) =>
           /\ Cardinality(Lookups(c)) <= 1
           /\ (\E i \in Lookups(c) : stack[c][1].pc = "getSender") =>
                \A j \in 1..Len(accountsLog) : NoAccount(accountsLog[j])
           /\ \A i \in Forwarded(c) :
                (~IsDefined(CallerTx(c).from) /\ IsDefined(Val(sent[c][i].tx).from))
                  => Val(sent[c][i].tx).from = _firstAccount

C4_Witness ==
  /\ Outer = "auto"
  /\ accountsLog = <<Result(<<>>), Result(<<"0xBB", "0xaa">>)>>
  /\ \E c \in Calls :
       /\ SenderCase(c)
       /\ Done(c)
       /\ Lookups(c) = {}
       /\ ~IsDefined(CallerTx(c).from)
       /\ \E i \in Forwarded(c) : Val(sent[c][i].tx).from = Some("0xBB")

(***************************************************************************)
(* C5: a wrapper is transparent for the methods it does not intercept: it  *)
(* issues one request, the caller's (method, params and transaction as     *)
(* they were at the call), returns the inner provider's outcome, and no    *)
(* step of such a call changes the wrapper's state.                        *)
(***************************************************************************)
LocalMethods ==
  {"eth_accounts", "eth_requestAccounts", "eth_sign", "eth_signTypedData",
   "eth_sendTransaction"}

C5_Case(c) ==
  /\ stack[c] # <<>>
  /\ \/ Outer = "local" /\ args0[c].method \notin LocalMethods
     \/ Outer \in {"auto", "fixed"} /\ args0[c].method \notin SenderMethods

C5_Forwards(c) ==
  /\ Len(sent[c]) <= 1
  /\ \A i \in 1..Len(sent[c]) :
       /\ sent[c][i].depth = 1
       /\ sent[c][i].method = args0[c].method
       /\ sent[c][i].hasParams = args0[c].hasParams
       /\ sent[c][i].params = args0[c].params
       /\ sent[c][i].tx = args0[c].tx
       /\ sent[c][i].raw = args0[c].raw
  /\ Done(c) => Len(sent[c]) = 1 /\ Outcome(c) = sent[c][1].outcome

C5_Transparent ==
  /\ [](\A c \in Calls : C5_Case(c) => C5_Forwards(c))
  /\ [][(\E c \in Calls : C5_Case(c)') => wrapperState' = wrapperState]_vars

C5_Witness ==
  \E c \in Calls :
    /\ C5_Case(c)
    /\ Outer = "local"
    /\ args0[c].method = "eth_getBalance"
    /\ Done(c)
    /\ Outcome(c) = TransportError
    /\ IsDefined(_chainId)

(***************************************************************************)
(* C6: a sender-default wrapper forwards eth_sendTransaction, eth_call and *)
(* eth_estimateGas with the caller's method and params; a transaction      *)
(* without from is forwarded with from = S when a sender S is resolved and *)
(* otherwise equal to the caller's; a transaction with a from is forwarded *)
(* as it is and causes no eth_accounts lookup.                             *)
(***************************************************************************)
\* the sender _getSender resolves for call c: the configured one, the first
\* address of the lookup's answer, or the one cached before the call
C6_Sender(c) ==
  IF Outer = "fixed" THEN _sender
  ELSE IF Lookups(c) = {} THEN _firstAccount
  ELSE LET answer == sent[c][CHOOSE i \in Lookups(c) : TRUE].outcome
       IN IF answer.kind = "result" /\ answer.val # <<>>
          THEN Some(answer.val[1])
          ELSE Undefined

C6_InjectsSender ==
  \A c \in Calls :
    SenderCase(c) =>
      /\ Cardinality(Forwarded(c)) <= 1
      /\ \A i \in Forwarded(c) :
           /\ sent[c][i].hasParams = args0[c].hasParams
           /\ sent[c][i].params = args0[c].params
           /\ IF IsDefined(CallerTx(c).from)
              THEN sent[c][i].tx = args0[c].tx
              ELSE IsDefined(C6_Sender(c)) =>
                     sent[c][i].tx =
                       Some([CallerTx(c) EXCEPT !.from = C6_Sender(c)])
      /\ IsDefined(CallerTx(c).from) => Lookups(c) = {}
      /\ (Done(c) /\ (IsDefined(CallerTx(c).from) \/ IsDefined(C6_Sender(c)))) =>
           /\ Cardinality(Forwarded(c)) = 1
           /\ \A i \in Forwarded(c) : Outcome(c) = sent[c][i].outcome

C6_Witness ==
  \E c \in Calls :
    /\ SenderCase(c)
    /\ Outer = "auto"
    /\ args0[c].method = "eth_estimateGas"
    /\ ~IsDefined(CallerTx(c).from)
    /\ Done(c)
    /\ \E i \in Lookups(c) : sent[c][i].outcome = Result(<<"0xBB", "0xaa">>)
    /\ \E i \in Forwarded(c) : Val(sent[c][i].tx).from = Some("0xBB")

(***************************************************************************)
(* C7: when the transaction has no from and the eth_accounts lookup is     *)
(* answered with the empty list, eth_sendTransaction fails with the        *)
(* no-sender error and is not forwarded; eth_call and eth_estimateGas are  *)
(* forwarded once, from still absent, and end as the inner provider ends   *)
(* them.                                                                   *)
(***************************************************************************)
C7_Case(c) ==
  /\ SenderCase(c)
  /\ ~IsDefined(CallerTx(c).from)
  /\ \E i \in Lookups(c) : sent[c][i].outcome = Result(<<>>)

C7_NoSender ==
  \A c \in Calls :
    C7_Case(c) =>
      /\ Cardinality(Forwarded(c)) <= 1
      /\ \A i \in Forwarded(c) :
           /\ sent[c][i].tx = args0[c].tx
           /\ sent[c][i].params = args0[c].params
      /\ IF args0[c].method = "eth_sendTransaction"
         THEN /\ Forwarded(c) = {}
              /\ Done(c) => Outcome(c) = Error(<<"NO_REMOTE_ACCOUNT_AVAILABLE">>)
         ELSE Done(c) =>
                /\ Cardinality(Forwarded(c)) = 1
                /\ \A i \in Forwarded(c) : Outcome(c) = sent[c][i].outcome
                /\ Outcome(c) # Error(<<"NO_REMOTE_ACCOUNT_AVAILABLE">>)

C7_Witness ==
  \E c \in Calls :
    /\ C7_Case(c)
    /\ args0[c].method = "eth_sendTransaction"
    /\ Done(c)
    /\ Outcome(c).kind = "error"
    /\ Len(sent[c]) = 1

(***************************************************************************)
(* C8: in the eth_sendTransaction path of a LocalAccountsProvider with     *)
(* gas, from and gasPrice: without a nonce the first request issued is the *)
(* one eth_getTransactionCount [from, "pending"], it precedes the          *)
(* eth_sendRawTransaction, and the signed transaction carries the nonce it *)
(* answered; with a nonce no eth_getTransactionCount is issued and the     *)
(* supplied nonce is signed.                                               *)
(***************************************************************************)
C8_Case(c) == LocalSendCase(c) /\ Signable(c)

NonceLookups(c) == IssuedOf(c, "eth_getTransactionCount")

C8_SignedNonces(c) ==
  {Val(sent[c][j].raw).txData.nonce : j \in IssuedOf(c, "eth_sendRawTransaction")}

C8_NonceAutoFill ==
  \A c \in Calls :
    C8_Case(c) =>
      IF IsDefined(CallerTx(c).nonce)
      THEN /\ NonceLookups(c) = {}
           /\ C8_SignedNonces(c) \subseteq
                {Some(rpcQuantityToBN(Val(CallerTx(c).nonce)))}
      ELSE /\ NonceLookups(c) \subseteq {1}
           /\ sent[c] # <<>> =>
                /\ NonceLookups(c) = {1}
                /\ sent[c][1].hasParams
                /\ sent[c][1].params =
                     <<toLowerCase(Val(CallerTx(c).from)), "pending">>
           /\ IssuedOf(c, "eth_sendRawTransaction") # {} =>
                /\ sent[c][1].outcome.kind = "result"
                /\ C8_SignedNonces(c) =
                     {Some(rpcQuantityToBN(sent[c][1].outcome.val[1]))}
           /\ Done(c) => NonceLookups(c) = {1}

C8_Witness ==
  \E c \in Calls :
    /\ C8_Case(c)
    /\ ~IsDefined(CallerTx(c).nonce)
    /\ Done(c)
    /\ Outcome(c).kind = "result"
    /\ C8_SignedNonces(c) = {Some(2)}

(***************************************************************************)
(* C9: the registry of a LocalAccountsProvider is, at all times, the map   *)
(* from the lower-case address of each constructor key to that key;        *)
(* eth_accounts and eth_requestAccounts return exactly those addresses,    *)
(* each once, and issue no request to the inner provider.                  *)
(***************************************************************************)
C9_Derived ==
  {toLowerCase(bufferToHex(privateToAddress(toBuffer(constructorKeys[i])))) :
     i \in 1..Len(constructorKeys)}

C9_Range(seq) == {seq[i] : i \in 1..Len(seq)}

C9_Accounts ==
  Outer = "local" =>
    /\ {e.address : e \in C9_Range(_addressToPrivateKey)} = C9_Derived
    /\ Len(_addressToPrivateKey) = Cardinality(C9_Derived)
    /\ \A e \in C9_Range(_addressToPrivateKey) :
         /\ e.address = toLowerCase(e.address)
         /\ bufferToHex(privateToAddress(e.pk)) = e.address
         /\ \E i \in 1..Len(constructorKeys) : toBuffer(constructorKeys[i]) = e.pk
    /\ \A c \in Calls :
         args0[c].method \in {"eth_accounts", "eth_requestAccounts"} =>
           /\ sent[c] = <<>>
           /\ Len(stack[c]) = 1
           /\ Done(c) =>
                /\ Outcome(c).kind = "result"
                /\ C9_Range(Outcome(c).val) = C9_Derived
                /\ Len(Outcome(c).val) = Cardinality(C9_Derived)

C9_Witness ==
  \E c \in Calls :
    /\ Outer = "local"
    /\ constructorKeys = <<"0x01", "0x01">>
    /\ args0[c].method = "eth_requestAccounts"
    /\ Done(c)
    /\ Outcome(c) = Result(<<"0xaa">>)
    /\ ncalls = 3
    /\ IsDefined(_chainId)

(***************************************************************************)
(* C10: eth_sign to a LocalAccountsProvider with an address: without data  *)
(* it fails with the missing-data error, with data and an address that is  *)
(* not held it fails with the unknown-account error, with a held address   *)
(* it returns the signature made with that address's key; no request is    *)
(* issued to the inner provider.                                           *)
(***************************************************************************)
C10_Case(c) ==
  /\ Outer = "local"
  /\ args0[c].method = "eth_sign"
  /\ Len(args0[c].params) \in {1, 2}
  /\ IsAddress(args0[c].params[1])
  /\ Len(args0[c].params) = 2 => IsHexData(args0[c].params[2])

AtTransport(c) == {i \in 1..Len(sent[c]) : sent[c][i].depth = Len(chain)}

AtTransportOf(c, method) == {i \in AtTransport(c) : sent[c][i].method = method}

C11_Case(c) ==
  /\ chain = <<"auto", "local">>
  /\ Len(_addressToPrivateKey) = 1
  /\ args0[c].method = "eth_sendTransaction"
  /\ HasTx(c)
  /\ ~IsDefined(CallerTx(c).from)
  /\ IsDefined(CallerTx(c).gas)
  /\ IsDefined(CallerTx(c).gasPrice)

C11_SignsWithFirstAccount ==
  \A c \in Calls :
    C11_Case(c) =>
      /\ AtTransportOf(c, "eth_accounts") = {}
      /\ AtTransportOf(c, "eth_sendTransaction") = {}
      /\ \A i \in Lookups(c) :
           sent[c][i].outcome \in
             {Pending, Result(<<_addressToPrivateKey[1].address>>)}
      /\ Cardinality(AtTransportOf(c, "eth_sendRawTransaction")) <= 1
      /\ \A i \in AtTransportOf(c, "eth_sendRawTransaction") :
           /\ i = Len(sent[c])
           /\ sent[c][i].params = <<RawRef>>
           /\ IsDefined(sent[c][i].raw)
           /\ Val(sent[c][i].raw).signedWith = _addressToPrivateKey[1].pk
      /\ Done(c) =>
           /\ sent[c] # <<>>
           /\ sent[c][Len(sent[c])].depth = Len(chain)
           /\ Outcome(c) = sent[c][Len(sent[c])].outcome
           /\ Outcome(c).kind = "result" =>
                Cardinality(AtTransportOf(c, "eth_sendRawTransaction")) = 1

C11_Witness ==
  \E c \in Calls :
    /\ C11_Case(c)
    /\ Done(c)
    /\ Outcome(c) = Result(<<"0xr1">>)
    /\ AtTransportOf(c, "eth_sendRawTransaction") # {}
    /\ Lookups(c) # {}
    /\ heap[c] # args0[c].tx

(***************************************************************************)
(* Vocabulary of the properties of the output builders                     *)
(***************************************************************************)
\* the operation fn was applied and returned a value
Returned(fn) == called.fn = fn /\ returned.kind = "result"

\* the operation fn was applied and threw
Threw(fn) == called.fn = fn /\ returned.kind = "error"

HeaderFields ==
  {"number", "hash", "parentHash", "nonce", "mixHash", "sha3Uncles",
   "logsBloom", "transactionsRoot", "stateRoot", "receiptsRoot", "miner",
   "difficulty", "totalDifficulty", "extraData", "size", "gasLimit",
   "gasUsed", "timestamp"}

NullFields(output) == {field \in HeaderFields : output[field] = Null}

(***************************************************************************)
(* C12 as claimed: getRpcBlock with pending and includeTransactions both   *)
(* true returns hash, nonce, mixHash and logsBloom null, and every         *)
(* transaction output of the block has transactionIndex, blockHash and     *)
(* blockNumber null.                                                       *)
(***************************************************************************)
C12_PendingPositionsNull ==
  (/\ Returned("getRpcBlock")
   /\ called.pending
   /\ called.includeTransactions) =>
    /\ returned.val.hash = Null
    /\ returned.val.nonce = Null
    /\ returned.val.mixHash = Null
    /\ returned.val.logsBloom = Null
    /\ \A i \in 1..Len(returned.val.transactions) :
         /\ returned.val.transactions[i].transactionIndex = Null
         /\ returned.val.transactions[i].blockHash = Null
         /\ returned.val.transactions[i].blockNumber = Null

(***************************************************************************)
(* C13 as claimed: with pending true, hash, nonce, mixHash and logsBloom   *)
(* are the only header fields of getRpcBlock's output that are null; with  *)
(* pending false no header field is null.                                  *)
(***************************************************************************)
C13_OnlyFourNull ==
  Returned("getRpcBlock") =>
    NullFields(returned.val) =
      IF called.pending THEN {"hash", "nonce", "mixHash", "logsBloom"} ELSE {}

(***************************************************************************)
(* C13 amended: with pending true, number, hash, nonce, mixHash and        *)
(* logsBloom are the only header fields of getRpcBlock's output that are   *)
(* null; with pending false no header field is null.                       *)
(***************************************************************************)
C13_NullHeaderFields ==
  Returned("getRpcBlock") =>
    NullFields(returned.val) =
      IF called.pending
      THEN {"number", "hash", "nonce", "mixHash", "logsBloom"}
      ELSE {}

C13_Witness ==
  /\ Returned("getRpcBlock")
  /\ called.pending
  /\ called.block.transactions # <<>>
  /\ returned.val.number = Null
  /\ returned.val.parentHash = <<"0x", "1", "0">>
  /\ returned.val.timestamp # Null

RECURSIVE SumOfGasUsed(_, _)
SumOfGasUsed(receipts, i) ==
  IF i = 0 THEN 0
  ELSE SumOfGasUsed(receipts, i - 1) + QuantityValue(receipts[i].gasUsed)

(***************************************************************************)
(* C14 as claimed: in the output of getRpcReceipts, cumulativeGasUsed of   *)
(* receipt i is the sum of the gasUsed fields of the output receipts 0..i; *)
(* so it never decreases along the sequence and the first receipt's        *)
(* cumulativeGasUsed is its own gasUsed.                                   *)
(***************************************************************************)
C14_RunningSum ==
  Returned("getRpcReceipts") =>
    \A i \in 1..Len(returned.val) :
      /\ QuantityValue(returned.val[i].cumulativeGasUsed)
           = SumOfGasUsed(returned.val, i)
      /\ i > 1 => QuantityValue(returned.val[i].cumulativeGasUsed)
                    >= QuantityValue(returned.val[i - 1].cumulativeGasUsed)
      /\ i = 1 => returned.val[i].cumulativeGasUsed = returned.val[i].gasUsed

\* the same for executions whose receipts report the gas of their own
\* transaction, as results does
C14_WhenReceiptsAgree ==
  (/\ Returned("getRpcReceipts")
   /\ \A i \in 1..Len(returned.val) :
        BN(called.runBlockResult.receipts[i].gasUsed)
          = called.runBlockResult.results[i].gasUsed) =>
    \A i \in 1..Len(returned.val) :
      QuantityValue(returned.val[i].cumulativeGasUsed)
        = SumOfGasUsed(returned.val, i)

\* the same for executions whose receipts report the gas used in the block
\* up to and including their transaction
C14_WhenReceiptsCumulate ==
  (/\ Returned("getRpcReceipts")
   /\ \A i \in 1..Len(returned.val) :
        BN(called.runBlockResult.receipts[i].gasUsed)
          = SumOfGasUsed(returned.val, i)) =>
    \A i \in 1..Len(returned.val) :
      QuantityValue(returned.val[i].cumulativeGasUsed)
        = SumOfGasUsed(returned.val, i)

(***************************************************************************)
(* C15 as claimed: on a FakeSenderTransaction, sign, getSenderPublicKey,   *)
(* getMessageToSign, getMessageToVerifySignature and verifySignature never *)
(* return a value: every call fails.                                       *)
(***************************************************************************)
C15_NeverReturn ==
  called.fn \in {"sign", "getSenderPublicKey", "getMessageToSign",
                 "getMessageToVerifySignature", "verifySignature"} =>
    returned.kind = "error"

(***************************************************************************)
(* C15 amended: on a FakeSenderTransaction, sign, getSenderPublicKey,      *)
(* getMessageToSign and getMessageToVerifySignature never return a value:  *)
(* every call fails with the InternalError that names the operation;       *)
(* verifySignature validates nothing and returns true.                     *)
(***************************************************************************)
C15_SigningRefused ==
  /\ called.fn \in {"sign", "getSenderPublicKey", "getMessageToSign",
                    "getMessageToVerifySignature"} =>
       /\ returned.kind = "error"
       /\ returned.val[1] = "InternalError"
       /\ returned.val[2] \in
            {"sign is not implemented in FakeSenderTransaction",
             "getSenderPublicKey is not implemented in FakeSenderTransaction",
             "getMessageToSign is not implemented in FakeSenderTransaction",
             "getMessageToVerifySignature is not implemented in FakeSenderTransaction"}
  /\ called.fn = "verifySignature" => returned = Result(TRUE)

C15_Witness ==
  /\ fakeSenderTx # Undefined
  /\ Val(fakeSenderTx)._sender = <<187>>
  /\ Val(fakeSenderTx).txData.v = Undefined
  /\ called.fn = "sign"
  /\ returned.kind = "error"

(***************************************************************************)
(* C18: getRpcTransaction applied to a transaction of which v, r or s is   *)
(* undefined fails with the invariant violation and produces no output;    *)
(* applied to a transaction that has all three it returns an output whose  *)
(* v, r and s are populated, with their encodings.                         *)
(***************************************************************************)
C18_RequiresSignature ==
  called.fn = "getRpcTransaction" /\ returned.kind # "pending" =>
    IF \/ called.tx.v = Undefined
       \/ called.tx.r = Undefined
       \/ called.tx.s = Undefined
    THEN returned = InvariantViolation("tx should be signed")
    ELSE /\ returned.kind = "result"
         /\ returned.val.v # Null
         /\ returned.val.r # Null
         /\ returned.val.s # Null
         /\ returned.val.v = numberToRpcQuantity(Val(called.tx.v))
         /\ returned.val.r = numberToRpcQuantity(Val(called.tx.r))
         /\ returned.val.s = numberToRpcQuantity(Val(called.tx.s))

C18_Witness ==
  /\ Threw("getRpcTransaction")
  /\ called.tx.v # Undefined
  /\ called.tx.r # Undefined
  /\ called.tx.s = Undefined

C18_WitnessSigned ==
  /\ Returned("getRpcTransaction")
  /\ returned.val.v = <<"0x", "1", "b">>
  /\ returned.val.blockHash = Null

(***************************************************************************)
(* C20: every log of the output of getRpcReceipts, log k of receipt i, has *)
(* removed false, transactionIndex i, the transactionHash, blockHash and   *)
(* blockNumber of receipt i and logIndex k, none of them null; every       *)
(* output of toRpcLogOutput has removed false.                             *)
(***************************************************************************)
C20_LogPositions ==
  /\ Returned("getRpcReceipts") =>
       \A i \in 1..Len(returned.val) :
         /\ Len(returned.val[i].logs)
              = Len(called.runBlockResult.receipts[i].logs)
         /\ \A k \in 1..Len(returned.val[i].logs) :
              LET log == returned.val[i].logs[k]
                  receipt == returned.val[i]
              IN /\ log.removed = FALSE
                 /\ log.transactionIndex = numberToRpcQuantity(i - 1)
                 /\ log.transactionIndex = receipt.transactionIndex
                 /\ log.transactionHash = receipt.transactionHash
                 /\ log.blockHash = receipt.blockHash
                 /\ log.blockNumber = receipt.blockNumber
                 /\ log.logIndex = numberToRpcQuantity(k - 1)
                 /\ Null \notin {log.transactionIndex, log.transactionHash,
                                 log.blockHash, log.blockNumber, log.logIndex}
  /\ Returned("toRpcLogOutput") => returned.val.removed = FALSE

C20_Witness ==
  /\ Returned("getRpcReceipts")
  /\ Len(returned.val) >= 2
  /\ Len(returned.val[2].logs) >= 2
  /\ returned.val[2].logs[2].logIndex = <<"0x", "1">>
  /\ returned.val[2].logs[2].transactionIndex = <<"0x", "1">>
  /\ returned.val[2].logs[2].blockNumber = <<"0x", "1", "2", "c">>

C20_WitnessRpcLog ==
  /\ Returned("toRpcLogOutput")
  /\ returned.val.blockHash = Null
  /\ returned.val.logIndex = <<"0x", "3">>

(***************************************************************************)
(* C17: a failure of the inner provider on a request a wrapper issued (the *)
(* nonce lookup, the chain-id lookup, the eth_accounts lookup, the         *)
(* eth_sendRawTransaction, a forwarded or passed-through request) is the   *)
(* last request of that call: nothing is issued after it, no retry and no  *)
(* eth_sendRawTransaction after a failed nonce lookup; the wrapper, once   *)
(* resumed, has failed with that same error; and a failed eth_accounts     *)
(* lookup of an AutomaticSenderProvider leaves its cache unset.            *)
(***************************************************************************)
Failed(c) == {i \in 1..Len(sent[c]) : sent[c][i].outcome.kind = "error"}

C17_FailuresPassThrough ==
  \A c \in Calls :
    \A i \in Failed(c) :
      /\ i = Len(sent[c])
      /\ sent[c][i].outcome = TransportError
      /\ Len(stack[c]) = 1 => Done(c) /\ Outcome(c) = sent[c][i].outcome
      /\ (SenderCase(c) /\ i \in Lookups(c)) => _firstAccount = Undefined

C17_Witness ==
  \E c \in Calls :
    /\ C1_Case(c)
    /\ Done(c)
    /\ Outcome(c) = TransportError
    /\ NonceLookups(c) # {}
    /\ NonceLookups(c) \subseteq Failed(c)
    /\ IssuedOf(c, "eth_sendRawTransaction") = {}

C17_WitnessLookup ==
  \E c \in Calls :
    /\ SenderCase(c)
    /\ Done(c)
    /\ Outcome(c) = TransportError
    /\ Lookups(c) # {}
    /\ Lookups(c) \subseteq Failed(c)
    /\ _firstAccount = Undefined

(***************************************************************************)
(* C19: over the eth_sendTransaction requests one LocalAccountsProvider    *)
(* handles one after another, the chain id is resolved at most once: a     *)
(* request issues at most one chain-id round trip, none is issued once a   *)
(* round trip has been answered, the cached chain id never changes once    *)
(* set, and every transaction is signed with the cached chain id.  (A      *)
(* round trip that fails resolves nothing and caches nothing.)             *)
(***************************************************************************)
ChainIdLookups(c) == IssuedOf(c, "eth_chainId")

C19_SignedChainIds(c) ==
  {Val(sent[c][j].raw).common.chainId : j \in IssuedOf(c, "eth_sendRawTransaction")}

AccountLists == Responses("eth_accounts")

\* the inner provider has answered every eth_accounts round trip so far
\* with the list L
AnsweredWith(L) ==
  \A i \in 1..Len(accountsLog) : accountsLog[i] = Result(L)

\* some request is waiting for the answer of its own eth_accounts round trip
InFlight == \E c \in Calls : stack[c] # <<>> /\ stack[c][1].pc = "getSender"

\* the cache is unset or the first address of L, and every forwarded request
\* whose caller named no sender carries the first address of L
CacheConsistent(L) ==
  /\ _firstAccount \in {Undefined, FirstOf(L)}
  /\ \A c \in Calls :
       (SenderCase(c) /\ ~IsDefined(CallerTx(c).from)) =>
         \A i \in Forwarded(c) : Val(sent[c][i].tx).from = FirstOf(L)

\* a step keeps a cache that is set, and issues no eth_accounts round trip
\* when one has been answered and none is in flight
CacheStable ==
  /\ IsDefined(_firstAccount) => _firstAccount' = _firstAccount
  /\ (accountsLog # <<>> /\ ~InFlight) =>
       \A c \in Calls : Lookups(c)' \subseteq Lookups(c)

(***************************************************************************)
(* C16 as claimed: whatever list the inner provider answers every          *)
(* eth_accounts round trip with, under every interleaving of the requests  *)
(* the cache is unset or the first address of that list, a cache that is   *)
(* set never changes, every request is given that address, and once a      *)
(* round trip was answered and none is in flight no request issues         *)
(* eth_accounts again.                                                     *)
(***************************************************************************)
C16_SafeForEveryList ==
  /\ [](\A L \in AccountLists : AnsweredWith(L) => CacheConsistent(L))
  /\ [][\A L \in AccountLists : AnsweredWith(L)' => CacheStable]_vars

(***************************************************************************)
(* C16 amended: the same, for every non-empty list the inner provider      *)
(* answers every eth_accounts round trip with (after the empty list the    *)
(* cache stays unset and the next request that needs a sender issues       *)
(* eth_accounts again).                                                    *)
(***************************************************************************)
C16_SafeForNonEmptyList ==
  /\ [](\A L \in AccountLists \ {<<>>} : AnsweredWith(L) => CacheConsistent(L))
  /\ [][\A L \in AccountLists \ {<<>>} : AnsweredWith(L)' => CacheStable]_vars

\* two requests missed the cache and each made its own round trip, both
\* answered with the same list; a later request made no round trip and was
\* forwarded with the first address of the list
C16_Witness ==
  /\ Outer = "auto"
  /\ accountsLog = <<Result(<<"0xBB", "0xaa">>), Result(<<"0xBB", "0xaa">>)>>
  /\ _firstAccount = Some("0xBB")
  /\ ~InFlight
  /\ \E c \in Calls :
       /\ SenderCase(c)
       /\ Done(c)
       /\ Lookups(c) = {}
       /\ ~IsDefined(CallerTx(c).from)
       /\ \E i \in Forwarded(c) : Val(sent[c][i].tx).from = Some("0xBB")

(***************************************************************************)
(* C21: toRpcReceiptOutput, applied to the canonical record decoded from a *)
(* receipt that getRpcReceipts built, returns that receipt field by field: *)
(* a null to or contractAddress stays null, the logs keep their order, and *)
(* every log keeps its logIndex, transactionIndex, transactionHash,        *)
(* blockHash and blockNumber.                                              *)
(***************************************************************************)
C21_RehydrationReproduces ==
  Returned("toRpcReceiptOutput") =>
    /\ DOMAIN returned.val = DOMAIN called.built
    /\ \A field \in DOMAIN called.built :
         returned.val[field] = called.built[field]
    /\ (called.built.to = Null) = (returned.val.to = Null)
    /\ (called.built.contractAddress = Null)
         = (returned.val.contractAddress = Null)
    /\ Len(returned.val.logs) = Len(called.built.logs)
    /\ \A k \in 1..Len(called.built.logs) :
         \A field \in {"logIndex", "transactionIndex", "transactionHash",
                       "blockHash", "blockNumber"} :
           returned.val.logs[k][field] = called.built.logs[k][field]

\* a receipt of a contract creation with two logs or more was rehydrated from
\* a record whose values are decoded ones
C21_Witness ==
  /\ Returned("toRpcReceiptOutput")
  /\ called.built.to = Null
  /\ called.built.contractAddress # Null
  /\ Len(called.built.logs) >= 2
  /\ called.receipt.gasUsed = 30000
  /\ called.receipt.transactionHash = <<162>>
  /\ returned.val.logs[2].logIndex = <<"0x", "1">>

\* and a receipt of a call, whose contractAddress is null, second in its block
C21_WitnessCall ==
  /\ Returned("toRpcReceiptOutput")
  /\ called.built.to # Null
  /\ called.built.contractAddress = Null
  /\ returned.val.transactionIndex = <<"0x", "1">>
  /\ returned.val.cumulativeGasUsed = called.built.cumulativeGasUsed

(***************************************************************************)
(* C22: the requests one eth_sendTransaction call of a LocalAccountsProvider*)
(* issues to the inner provider are sequential and ordered: only the last  *)
(* request issued can be unanswered and the wrapper waits for one request  *)
(* at a time; a nonce lookup is the first request and has been answered    *)
(* when the chain id round trip is issued; eth_sendRawTransaction is       *)
(* issued once, after every other request was answered, when the nonce     *)
(* (supplied or looked up) and the chain id are known, carries both, and   *)
(* no request follows it.                                                  *)
(***************************************************************************)
RawSends(c) == IssuedOf(c, "eth_sendRawTransaction")

\* the nonce the call knows: the caller's, or the answer to the lookup
KnownNonce(c) ==
  IF IsDefined(CallerTx(c).nonce)
  THEN Some(rpcQuantityToBN(Val(CallerTx(c).nonce)))
  ELSE IF \E i \in NonceLookups(c) : sent[c][i].outcome.kind = "result"
  THEN Some(rpcQuantityToBN(
              sent[c][CHOOSE i \in NonceLookups(c) : TRUE].outcome.val[1]))
  ELSE Undefined

C22_SequentialAndOrdered ==
  \A c \in Calls :
    LocalSendCase(c) =>
      /\ Len(stack[c]) <= 2
      /\ \A i \in 1..Len(sent[c]) :
           /\ sent[c][i].method \in {"eth_getTransactionCount", "eth_chainId",
                                     "eth_sendRawTransaction"}
           /\ i < Len(sent[c]) => sent[c][i].outcome.kind = "result"
      /\ Cardinality(NonceLookups(c)) <= 1
      /\ Cardinality(ChainIdLookups(c)) <= 1
      /\ Cardinality(RawSends(c)) <= 1
      /\ \A i \in NonceLookups(c) :
           /\ i = 1
           /\ ~IsDefined(CallerTx(c).nonce)
           /\ \A j \in ChainIdLookups(c) :
                i < j /\ sent[c][i].outcome.kind = "result"
      /\ \A k \in RawSends(c) :
           /\ k = Len(sent[c])
           /\ \A i \in NonceLookups(c) \cup ChainIdLookups(c) : i < k
           /\ IsDefined(KnownNonce(c))
           /\ Val(sent[c][k].raw).txData.nonce = KnownNonce(c)
           /\ IsDefined(_chainId)
           /\ Val(sent[c][k].raw).common.chainId = Val(_chainId)

\* a call that made all three round trips, one after the other, and returned
C22_Witness ==
  \E c \in Calls :
    /\ LocalSendCase(c)
    /\ Done(c)
    /\ Outcome(c).kind = "result"
    /\ Len(sent[c]) = 3
    /\ NonceLookups(c) = {1}
    /\ ChainIdLookups(c) = {2}
    /\ RawSends(c) = {3}
    /\ Val(sent[c][3].raw).txData.nonce = Some(2)

\* the chain id round trip is outstanding after the nonce lookup was answered
C22_WitnessOutstanding ==
  \E c \in Calls :
    /\ LocalSendCase(c)
    /\ Len(stack[c]) = 2
    /\ Len(sent[c]) = 2
    /\ sent[c][1].outcome.kind = "result"
    /\ sent[c][2].method = "eth_chainId"
    /\ sent[c][2].outcome = Pending

(***************************************************************************)
(* C23: eth_sendTransaction to a LocalAccountsProvider with gas, from and  *)
(* gasPrice present and a from that the registry does not hold, a nonce    *)
(* being supplied or not: no chain id round trip and no                    *)
(* eth_sendRawTransaction is ever issued for the call (the nonce lookup,   *)
(* when no nonce was supplied, is its only request), the call never        *)
(* returns a result, and it fails with the unknown-account error naming    *)
(* from; when the inner provider fails the nonce lookup, which precedes    *)
(* the registry lookup, the call has failed with that failure instead.     *)
(***************************************************************************)
C23_Case(c) ==
  /\ LocalSendCase(c)
  /\ Signable(c)
  /\ ~Holds(Val(CallerTx(c).from))

C23_UnknownAccount ==
  \A c \in Calls :
    C23_Case(c) =>
      /\ ChainIdLookups(c) = {}
      /\ RawSends(c) = {}
      /\ Len(sent[c]) <= 1
      /\ Issued(c) = NonceLookups(c)
      /\ IsDefined(CallerTx(c).nonce) => sent[c] = <<>>
      /\ Outcome(c).kind # "result"
      /\ Done(c) =>
           IF Failed(c) = {}
           THEN Outcome(c) = Error(<<"NOT_LOCAL_ACCOUNT",
                                     toLowerCase(Val(CallerTx(c).from))>>)
           ELSE Outcome(c) = sent[c][1].outcome

\* no nonce was supplied: the nonce lookup was answered and the call failed
\* with the unknown-account error
C23_Witness ==
  \E c \in Calls :
    /\ C23_Case(c)
    /\ ~IsDefined(CallerTx(c).nonce)
    /\ Done(c)
    /\ Len(sent[c]) = 1
    /\ sent[c][1].method = "eth_getTransactionCount"
    /\ sent[c][1].outcome.kind = "result"
    /\ Outcome(c) = Error(<<"NOT_LOCAL_ACCOUNT", "0xbb">>)

\* a nonce was supplied: the call failed without any request
C23_WitnessNonceSupplied ==
  \E c \in Calls :
    /\ C23_Case(c)
    /\ IsDefined(CallerTx(c).nonce)
    /\ Done(c)
    /\ sent[c] = <<>>
    /\ Outcome(c) = Error(<<"NOT_LOCAL_ACCOUNT", "0xbb">>)

\* the registry lookup is not reached when the nonce lookup fails
C23_WitnessLookupFailed ==
  \E c \in Calls :
    /\ C23_Case(c)
    /\ Done(c)
    /\ Failed(c) = {1}
    /\ Outcome(c) = TransportError

====
